---- MODULE Spec2Model ----
(***************************************************************************)
(* Model of the vscode-mcp-auth-sample server:                             *)
(*   - oauth.ts          PKCE store, GET /authorize, GET /callback         *)
(*   - middleware/auth.ts  requireAuth / optionalAuth, token cache         *)
(*   - mcp/http-transport.ts  session-keyed transport registry             *)
(* Node runs every handler on one event loop: a handler executes           *)
(* atomically from its entry (or from the resumption of an await on I/O)   *)
(* to its next await on I/O.  Each action below is one such segment.       *)
(***************************************************************************)
EXTENDS Integers, Sequences, FiniteSets, TLC

\* ------------------------------------------------------------------ bounds
MaxEvents == 4         \* requests received plus clock advances, per behaviour
MaxInflight == 2       \* /callback requests awaiting the token endpoint
MaxAuthEvents == 3     \* the same, for the behaviours of SpecAuth
MaxAuthInflight == 1   \* middleware runs awaiting the authority
MaxResolving == 2      \* concurrent calls of validateTokenViaGraphAPI
MaxMcpEvents == 3      \* requests and signals per behaviour of SpecMcp
MaxMcpInflight == 1    \* initialize requests awaiting server.connect
MaxOperand == 2        \* the numbers given to calculate lie in -MaxOperand..MaxOperand

\* --------------------------------------------------------- program constants
PkceTtlMs == 600000    \* 10 * 60 * 1000
CacheTtlMs == 300000   \* 5 * 60 * 1000
\* The `timeout` option of the axios.post to the token endpoint: none is
\* given, and the axios default is 0 (no timeout).
TokenExchangeTimeoutMs == 0

Null == "null"         \* JavaScript null / undefined

VARIABLES
  now,            \* Date.now(), milliseconds
  events,         \* requests received and clock advances so far
  pkceStore,      \* oauth.ts pkceStore: state -> {codeVerifier, expiresAt}
  tokenStore,     \* oauth.ts tokenStore: sessionId -> {accessToken, expiresAt}
  nextVerifier,   \* number of verifiers generateCodeVerifier has produced
  nextState,      \* number of state values /authorize has generated
  cbInflight,     \* /callback handlers suspended in `await axios.post`
  lastAuthorize,  \* the redirect the last /authorize produced
  lastCallback,   \* the response the last finished /callback produced
  redeemCount,    \* history: verifier -> times getAndRemoveCodeVerifier returned it
  tokenCache,     \* auth.ts tokenCache: token -> {user, validUntil}
  revoked,        \* the tokens the authority currently answers with 401
  authInflight,   \* requireAuth / optionalAuth runs suspended in `await axios.get`
  lastAuth,       \* the last finished requireAuth / optionalAuth run and its request
  transports,     \* http-transport.ts transports: session id -> transport
  requestContextStore, \* http-transport.ts requestContextStore: session id -> request
  tports,         \* the StreamableHTTPServerTransport objects created so far
  mcpInflight,    \* POST handlers suspended: an initialize in `await
                  \* server.connect`, a tools/call in `await transport.handleRequest`
                  \* while get-user-info waits for the authority
  shutdown,       \* the SIGINT handler: the keys its for-in loop has yet to visit,
                  \* the keys it started with and those whose close threw; and
                  \* whether the process has ended, with which exit code
  issuedLog,      \* history: <<session id, transport>> per onsessioninitialized call
  lastMcp,        \* the last finished request on the protocol endpoint
  toolRun         \* the last tool invocation: its input, its position, its outcome

oauthVars == <<pkceStore, tokenStore, nextVerifier, nextState, cbInflight,
               lastAuthorize, lastCallback, redeemCount>>
clockVars == <<now>>
authVars == <<tokenCache, revoked, authInflight, lastAuth>>
mcpVars == <<transports, requestContextStore, tports, mcpInflight, shutdown,
             issuedLog, lastMcp>>
toolVars == <<toolRun>>

\* ------------------------------------------------------------------ clock
TickSteps == {1000, CacheTtlMs}

\* An external event (a request arriving, the clock advancing) is counted.
\* A process that has ended takes no event.
Event(limit) ==
  /\ ~shutdown.exited
  /\ events < limit
  /\ events' = events + 1

Tick(d, limit) ==
  /\ Event(limit)
  /\ now' = now + d

\* ------------------------------------------------------ generic map helpers
MapSet(m, k, v) == [x \in DOMAIN m \cup {k} |-> IF x = k THEN v ELSE m[x]]
MapDelete(m, k) == [x \in DOMAIN m \ {k} |-> m[x]]
EmptyMap == [x \in {} |-> Null]

\* =================================================================== oauth.ts
\* crypto.randomBytes(32).toString('base64url'): 256 random bits; the n-th
\* call yields a value no earlier call yielded.
VerifierPool == <<"v1", "v2", "v3", "v4", "v5", "v6", "v7", "v8">>
generateCodeVerifier(n) == VerifierPool[n + 1]

\* BASE64URL(SHA256(verifier)): an injective image of the verifier.
generateCodeChallenge(codeVerifier) == "sha256(" \o codeVerifier \o ")"

\* crypto.randomBytes(16).toString('base64url') for a missing state parameter.
StatePool == <<"gen1", "gen2", "gen3", "gen4", "gen5", "gen6", "gen7", "gen8">>
GeneratedState(n) == StatePool[n + 1]

ClientStates == {"abc123"}
ClientVerifiers == {"clientVerifier"}
ClientChallenges == {"sha256(clientVerifier)"}
Codes == {"XYZ"}

\* A store that keeps the challenge in place of the verifier.
storeChallengeInstead(store, state, codeVerifier, t) ==
  MapSet(store, state,
         [codeVerifier |-> generateCodeChallenge(codeVerifier), expiresAt |-> t + PkceTtlMs])

\* A store that keeps the entry a state already has.
storeKeepsFirst(store, state, codeVerifier, t) ==
  LET added == IF state \in DOMAIN store
                 THEN store
                 ELSE MapSet(store, state,
                             [codeVerifier |-> codeVerifier, expiresAt |-> t + PkceTtlMs])
      live == {k \in DOMAIN added : ~(t > added[k].expiresAt)}
  IN [k \in live |-> added[k]]

\* storeCodeVerifier: set the entry, then drop every expired entry.
storeCodeVerifier(store, state, codeVerifier, t) ==
  LET added == MapSet(store, state,
                      [codeVerifier |-> codeVerifier, expiresAt |-> t + PkceTtlMs])
      live == {k \in DOMAIN added : ~(t > added[k].expiresAt)}
  IN [k \in live |-> added[k]]

\* A redeem that does not look at expiresAt.
getAndRemoveIgnoringExpiry(store, state, t) ==
  IF state \notin DOMAIN store
    THEN [result |-> Null, store |-> store]
    ELSE [result |-> store[state].codeVerifier, store |-> MapDelete(store, state)]

\* A redeem that forgets the delete of line 83.
getWithoutRemove(store, state, t) ==
  IF state \notin DOMAIN store
    THEN [result |-> Null, store |-> store]
    ELSE IF t > store[state].expiresAt
      THEN [result |-> Null, store |-> MapDelete(store, state)]
      ELSE [result |-> store[state].codeVerifier, store |-> store]

\* getAndRemoveCodeVerifier: the value returned and the store afterwards.
getAndRemoveCodeVerifier(store, state, t) ==
  IF state \notin DOMAIN store
    THEN [result |-> Null, store |-> store]
    ELSE IF t > store[state].expiresAt
      THEN [result |-> Null, store |-> MapDelete(store, state)]
      ELSE [result |-> store[state].codeVerifier, store |-> MapDelete(store, state)]

\* GET /authorize.  st: the state query parameter or Null; cc, ccm: the
\* code_challenge / code_challenge_method query parameters or Null.
Authorize(st, cc, ccm) ==
  LET generated == (st = Null)
      stateParam == IF generated THEN GeneratedState(nextState) ELSE st
      clientPkce == (cc # Null /\ ccm # Null)
      codeVerifier == generateCodeVerifier(nextVerifier)
  IN /\ Event(MaxEvents)
     /\ nextState' = IF generated THEN nextState + 1 ELSE nextState
     /\ IF clientPkce
          THEN /\ UNCHANGED <<pkceStore, nextVerifier>>
               /\ lastAuthorize' = [state |-> stateParam, code_challenge |-> cc,
                                    code_challenge_method |-> ccm,
                                    stored |-> Null]
          ELSE /\ pkceStore' = storeCodeVerifier(pkceStore, stateParam, codeVerifier, now)
               /\ nextVerifier' = nextVerifier + 1
               /\ lastAuthorize' = [state |-> stateParam,
                                    code_challenge |-> generateCodeChallenge(codeVerifier),
                                    code_challenge_method |-> "S256",
                                    stored |-> codeVerifier]
     /\ UNCHANGED <<tokenStore, cbInflight, lastCallback, redeemCount>>

\* GET /callback, from its entry to its first await (or to its response).
\* code, st, err, cv: the code / state / error / code_verifier query
\* parameters or Null.
Idle == [pc |-> "idle"]
FreeSlots == {i \in DOMAIN cbInflight : cbInflight[i] = Idle}

CallbackResponse(status, page, st) ==
  [status |-> status, page |-> page, state |-> st, exchanged |-> FALSE,
   redeemed |-> Null, record |-> Null]

\* config.azure.clientId and the default redirect URI of the token request.
ClientId == "client-id"
CallbackUri == "http://localhost:3000/callback"

\* A token request that also authenticates the client with a secret.
tokenParamsWithSecret(code, codeVerifier) ==
  [client_id |-> ClientId, client_secret |-> "secret", code |-> code,
   redirect_uri |-> CallbackUri, grant_type |-> "authorization_code",
   code_verifier |-> codeVerifier]

\* The form body POSTed to the token endpoint: `tokenParams`.
tokenParams(code, codeVerifier) ==
  [client_id |-> ClientId, code |-> code, redirect_uri |-> CallbackUri,
   grant_type |-> "authorization_code", code_verifier |-> codeVerifier]

\* A /callback that checks only for the code before it goes on.
CallbackStartUnchecked(code, st, err, cv) ==
  /\ Event(MaxEvents)
  /\ UNCHANGED <<tokenStore, nextVerifier, nextState, lastAuthorize>>
  /\ IF code = Null
       THEN /\ lastCallback' = CallbackResponse(400, "missing_code", st)
            /\ UNCHANGED <<pkceStore, cbInflight, redeemCount>>
     ELSE IF cv # Null
       THEN \E i \in FreeSlots :
            /\ cbInflight' = [cbInflight EXCEPT ![i] =
                 [pc |-> "exchange", code |-> code, state |-> st,
                  code_verifier |-> cv, fromStore |-> FALSE,
                  request |-> tokenParams(code, cv)]]
            /\ UNCHANGED <<pkceStore, lastCallback, redeemCount>>
     ELSE LET r == getAndRemoveCodeVerifier(pkceStore, st, now)
          IN /\ pkceStore' = r.store
             /\ IF r.result = Null
                  THEN /\ lastCallback' = CallbackResponse(400, "pkce_failed", st)
                       /\ UNCHANGED <<cbInflight, redeemCount>>
                  ELSE /\ FreeSlots # {}
                       /\ \E i \in FreeSlots :
                            cbInflight' = [cbInflight EXCEPT ![i] =
                              [pc |-> "exchange", code |-> code, state |-> st,
                               code_verifier |-> r.result, fromStore |-> TRUE,
                               request |-> tokenParams(code, r.result)]]
                       /\ redeemCount' = MapSet(redeemCount, r.result,
                            IF r.result \in DOMAIN redeemCount
                              THEN redeemCount[r.result] + 1 ELSE 1)
                       /\ UNCHANGED lastCallback

CallbackStart(code, st, err, cv) ==
  /\ Event(MaxEvents)
  /\ UNCHANGED <<tokenStore, nextVerifier, nextState, lastAuthorize>>
  /\ IF err # Null
       THEN /\ lastCallback' = CallbackResponse(400, "authorization_failed", st)
            /\ UNCHANGED <<pkceStore, cbInflight, redeemCount>>
     ELSE IF code = Null
       THEN /\ lastCallback' = CallbackResponse(400, "missing_code", st)
            /\ UNCHANGED <<pkceStore, cbInflight, redeemCount>>
     ELSE IF st = Null
       THEN /\ lastCallback' = CallbackResponse(400, "missing_state", st)
            /\ UNCHANGED <<pkceStore, cbInflight, redeemCount>>
     ELSE IF cv # Null
       THEN \E i \in FreeSlots :
            /\ cbInflight' = [cbInflight EXCEPT ![i] =
                 [pc |-> "exchange", code |-> code, state |-> st,
                  code_verifier |-> cv, fromStore |-> FALSE,
                  request |-> tokenParams(code, cv)]]
            /\ UNCHANGED <<pkceStore, lastCallback, redeemCount>>
     ELSE LET r == getAndRemoveCodeVerifier(pkceStore, st, now)
          IN /\ pkceStore' = r.store
             /\ IF r.result = Null
                  THEN /\ lastCallback' = CallbackResponse(400, "pkce_failed", st)
                       /\ UNCHANGED <<cbInflight, redeemCount>>
                  ELSE /\ FreeSlots # {}
                       /\ \E i \in FreeSlots :
                            cbInflight' = [cbInflight EXCEPT ![i] =
                              [pc |-> "exchange", code |-> code, state |-> st,
                               code_verifier |-> r.result, fromStore |-> TRUE,
                               request |-> tokenParams(code, r.result)]]
                       /\ redeemCount' = MapSet(redeemCount, r.result,
                            IF r.result \in DOMAIN redeemCount
                              THEN redeemCount[r.result] + 1 ELSE 1)
                       /\ UNCHANGED lastCallback

\* The answers of the authority's token endpoint to `axios.post`.
TokenEndpointAnswers == {"token", "no_access_token", "authority_error", "network_error"}
AccessTokens == {"at1"}
ExpiresInSec == 3600
\* Math.random().toString(36).substring(7): a short pseudo-random string,
\* not guaranteed to differ from an earlier one.
RecordIds == {"k1", "k2"}

\* A /callback that writes its record before it looks at the answer.
CallbackFinishStoresFirst(i, answer, at, sessionId) ==
  /\ cbInflight[i] # Idle
  /\ cbInflight' = [cbInflight EXCEPT ![i] = Idle]
  /\ UNCHANGED <<pkceStore, nextVerifier, nextState, lastAuthorize, redeemCount, events>>
  /\ tokenStore' = MapSet(tokenStore, sessionId,
                          [accessToken |-> at, expiresAt |-> now + ExpiresInSec * 1000])
  /\ lastCallback' = [status |-> IF answer = "token" THEN 200 ELSE 500,
                      page |-> IF answer = "token" THEN "success" ELSE "exchange_failed",
                      state |-> cbInflight[i].state, exchanged |-> TRUE,
                      redeemed |-> IF cbInflight[i].fromStore
                                     THEN cbInflight[i].code_verifier ELSE Null,
                      record |-> IF answer = "token" THEN sessionId ELSE Null]

\* A /callback that puts the verifier back when the exchange has failed, so
\* that the callback can be tried again.
CallbackFinishRestoresVerifier(i, answer, at, sessionId) ==
  /\ cbInflight[i] # Idle
  /\ cbInflight' = [cbInflight EXCEPT ![i] = Idle]
  /\ UNCHANGED <<nextVerifier, nextState, lastAuthorize, redeemCount, events>>
  /\ IF answer = "token"
       THEN /\ tokenStore' = MapSet(tokenStore, sessionId,
                 [accessToken |-> at, expiresAt |-> now + ExpiresInSec * 1000])
            /\ UNCHANGED pkceStore
            /\ lastCallback' = [status |-> 200, page |-> "success",
                 state |-> cbInflight[i].state, exchanged |-> TRUE,
                 redeemed |-> IF cbInflight[i].fromStore
                                THEN cbInflight[i].code_verifier ELSE Null,
                 record |-> sessionId]
       ELSE /\ UNCHANGED tokenStore
            /\ pkceStore' = IF cbInflight[i].fromStore
                              THEN MapSet(pkceStore, cbInflight[i].state,
                                     [codeVerifier |-> cbInflight[i].code_verifier,
                                      expiresAt |-> now + PkceTtlMs])
                              ELSE pkceStore
            /\ lastCallback' = [status |-> 500, page |-> "exchange_failed",
                 state |-> cbInflight[i].state, exchanged |-> TRUE,
                 redeemed |-> IF cbInflight[i].fromStore
                                THEN cbInflight[i].code_verifier ELSE Null,
                 record |-> Null]

\* GET /callback resumed by the token endpoint's answer.
CallbackFinish(i, answer, at, sessionId) ==
  /\ cbInflight[i] # Idle
  /\ cbInflight' = [cbInflight EXCEPT ![i] = Idle]
  /\ UNCHANGED <<pkceStore, nextVerifier, nextState, lastAuthorize, redeemCount, events>>
  /\ IF answer = "token"
       THEN /\ tokenStore' = MapSet(tokenStore, sessionId,
                 [accessToken |-> at, expiresAt |-> now + ExpiresInSec * 1000])
            /\ lastCallback' = [status |-> 200, page |-> "success",
                 state |-> cbInflight[i].state, exchanged |-> TRUE,
                 redeemed |-> IF cbInflight[i].fromStore
                                THEN cbInflight[i].code_verifier ELSE Null,
                 record |-> sessionId]
       ELSE /\ UNCHANGED tokenStore
            /\ lastCallback' = [status |-> 500, page |-> "exchange_failed",
                 state |-> cbInflight[i].state, exchanged |-> TRUE,
                 redeemed |-> IF cbInflight[i].fromStore
                                THEN cbInflight[i].code_verifier ELSE Null,
                 record |-> Null]

\* getTokenFromStore(sessionId): the access token of a record, or null when
\* there is no record or `Date.now() > tokenData.expiresAt`; an expired record
\* is deleted by the read.
getTokenFromStore(store, sessionId, t) ==
  IF sessionId \notin DOMAIN store
    THEN [result |-> Null, store |-> store]
    ELSE IF t > store[sessionId].expiresAt
           THEN [result |-> Null, store |-> MapDelete(store, sessionId)]
           ELSE [result |-> store[sessionId].accessToken, store |-> store]

\* A call of the exported getTokenFromStore.
GetTokenFromStore(sessionId) ==
  /\ ~shutdown.exited
  /\ tokenStore' = getTokenFromStore(tokenStore, sessionId, now).store
  /\ UNCHANGED <<pkceStore, nextVerifier, nextState, cbInflight, lastAuthorize,
                 lastCallback, redeemCount, events>>

\* ============================================================ the process
\* A promise rejected with nobody to handle it: Express 4 drops the promise
\* an async middleware or handler returns, and Node (unhandled rejections
\* throw by default) ends the process with exit code 1.  The request under
\* way gets no response; every store of every module and every suspended
\* handler is gone with the process.  The caller records the request and
\* counts the event.
UnhandledRejection ==
  /\ shutdown' = [shutdown EXCEPT !.running = FALSE, !.keys = <<>>,
                                  !.exited = TRUE, !.exitCode = 1]
  /\ pkceStore' = EmptyMap
  /\ tokenStore' = EmptyMap
  /\ cbInflight' = [i \in DOMAIN cbInflight |-> Idle]
  /\ tokenCache' = EmptyMap
  /\ authInflight' = [i \in DOMAIN authInflight |-> Idle]
  /\ transports' = EmptyMap
  /\ requestContextStore' = EmptyMap
  /\ mcpInflight' = [i \in DOMAIN mcpInflight |-> Idle]
  /\ UNCHANGED <<now, nextVerifier, nextState, lastAuthorize, lastCallback, redeemCount,
                 revoked, tports, issuedLog, toolRun>>

\* What a step of one module leaves alone in the others: everything in v,
\* unless the process ends in the step.
Survives(v) == shutdown'.exited \/ UNCHANGED v

\* ========================================================= middleware/auth.ts
\* config.azure.issuer and the v2.0 issuer built from config.azure.tenantId.
IssuerV1 == "https://sts.windows.net/tenant/"
IssuerV2 == "https://login.microsoftonline.com/tenant/v2.0"
validIssuers == {IssuerV1, IssuerV2}
\* An issuer string holding a character Node refuses in a header value
\* (a line feed, written here as <LF>).
IssuerWithLineFeed == "https://evil.example/<LF>"

\* The bearer tokens of the model and what jwt.decode reads from each
\* (exp in seconds; hasExp FALSE and exp 0 for a token without exp; iss Null
\* for a token without iss).  jwt.decode verifies no signature: tForged
\* decodes like tGood.  tExpZero carries "exp": 0.
Tokens == {"garbage", "tGood", "tSoon", "tNoExp", "tExpZero", "tForeign", "tLineFeed",
           "tNoIss", "tForged"}
\* tBrief, a token of the concurrent-resolution specification, expires one
\* second after the start of the clock.
BriefExpSec == 1
SoonExpSec == 300
LateExpSec == 7200
Decoded(iss, hasExp, exp) == [decodable |-> TRUE, iss |-> iss, hasExp |-> hasExp, exp |-> exp]
Claims(token) ==
  CASE token = "tGood"     -> Decoded(IssuerV1, TRUE, LateExpSec)
    [] token = "tSoon"     -> Decoded(IssuerV2, TRUE, SoonExpSec)
    [] token = "tNoExp"    -> Decoded(IssuerV1, FALSE, 0)
    [] token = "tExpZero"  -> Decoded(IssuerV1, TRUE, 0)
    [] token = "tForeign"  -> Decoded("https://evil.example/", TRUE, LateExpSec)
    [] token = "tLineFeed" -> Decoded(IssuerWithLineFeed, TRUE, LateExpSec)
    [] token = "tNoIss"    -> Decoded(Null, TRUE, LateExpSec)
    [] token = "tForged"   -> Decoded(IssuerV1, TRUE, LateExpSec)
    [] token = "tBrief"    -> Decoded(IssuerV1, TRUE, BriefExpSec)
    [] OTHER               -> [decodable |-> FALSE, iss |-> Null, hasExp |-> FALSE, exp |-> 0]

\* An Authorization header is the string prefix \o rest, prefix being its
\* first seven characters; NoHeader is a request without the header.
NoHeader == [present |-> FALSE, prefix |-> "", rest |-> ""]
Bearer(token) == [present |-> TRUE, prefix |-> "Bearer ", rest |-> token]
BasicHeader == [present |-> TRUE, prefix |-> "Basic d", rest |-> "XNlcjpwdw=="]
RawTokenHeader == [present |-> TRUE, prefix |-> "tGood", rest |-> ""]
startsWithBearer(h) == h.prefix = "Bearer "
substring7(h) == h.rest

NoPayload == [iss |-> Null, exp |-> 0]
NoUser == [iss |-> Null, exp |-> 0, graph |-> Null]
NoEntry == [user |-> Null, validUntil |-> 0]

\* validateTokenStructure: the payload, or the message of the Error thrown.
validateTokenStructure(token, t) ==
  LET c == Claims(token)
  IN IF ~c.decodable
       THEN [ok |-> FALSE, error |-> "Invalid token structure", payload |-> NoPayload]
     ELSE IF c.iss = Null
       THEN [ok |-> FALSE, error |-> "Invalid issuer: undefined", payload |-> NoPayload]
     ELSE IF c.iss \notin validIssuers
       THEN [ok |-> FALSE, error |-> "Invalid issuer: " \o c.iss, payload |-> NoPayload]
     ELSE IF c.hasExp /\ c.exp # 0 /\ c.exp < (t \div 1000)
       THEN [ok |-> FALSE, error |-> "Token has expired", payload |-> NoPayload]
     ELSE [ok |-> TRUE, error |-> Null, payload |-> [iss |-> c.iss, exp |-> c.exp]]

\* A lookup that never finds an entry.
cacheLookupMiss(cache, token, t) == NoEntry

\* A lookup that returns whatever entry the cache holds, fresh or stale.
cacheLookupIgnoringExpiry(cache, token, t) ==
  IF token \in DOMAIN cache THEN cache[token] ELSE NoEntry

\* validateTokenViaGraphAPI, lines 56-60: the cache entry that is a hit.
cacheLookup(cache, token, t) ==
  IF token \in DOMAIN cache /\ cache[token].validUntil > t
    THEN cache[token]
    ELSE NoEntry

\* The profile the authority returns for a token.
GraphProfile(token) == "profile(" \o token \o ")"

\* What `axios.get(graph /me)` can end in: a 200, a 401, another HTTP error,
\* or no response within the 5 s timeout.
GraphAnswers == {"ok", "401", "500", "timeout"}

\* The answers the authority can give for a token now.
AuthorityAnswers(token) ==
  (IF token \in revoked THEN {"401"} ELSE {"ok"}) \cup {"500", "timeout"}

FreeAuthSlots == {i \in DOMAIN authInflight : authInflight[i] = Idle}

\* A resolution that remembers a failure: it drops the token's entry and
\* caches the token as invalid.
graphResumeCachesFailure(cache, token, answer, t) ==
  IF answer = "ok"
    THEN [ok |-> TRUE, user |-> GraphProfile(token), error |-> Null,
          cache |-> MapSet(cache, token,
                      [user |-> GraphProfile(token), validUntil |-> t + CacheTtlMs])]
    ELSE [ok |-> FALSE, user |-> Null, error |-> "Token is invalid or expired",
          cache |-> MapSet(cache, token, [user |-> "invalid", validUntil |-> t + CacheTtlMs])]

\* validateTokenViaGraphAPI, lines 71-99, resumed by the authority's answer:
\* the user and the cache afterwards, or the message of the Error thrown.
graphResume(cache, token, answer, t) ==
  IF answer = "ok"
    THEN [ok |-> TRUE, user |-> GraphProfile(token), error |-> Null,
          cache |-> MapSet(cache, token,
                      [user |-> GraphProfile(token), validUntil |-> t + CacheTtlMs])]
  ELSE IF answer = "401"
    THEN [ok |-> FALSE, user |-> Null, error |-> "Token is invalid or expired",
          cache |-> cache]
  ELSE IF answer = "500"
    THEN [ok |-> FALSE, user |-> Null, cache |-> cache,
          error |-> "Graph API validation failed: 500 Internal Server Error"]
  ELSE [ok |-> FALSE, user |-> Null, cache |-> cache,
        error |-> "Graph API validation failed: undefined undefined"]

\* The periodic setInterval sweep of the token cache.
cacheSweep(cache, t) ==
  [k \in {x \in DOMAIN cache : ~(cache[x].validUntil < t)} |-> cache[k]]

\* Node's setHeader throws ERR_INVALID_CHAR for a value holding a character
\* outside [\t\x20-\x7e\x80-\xff].
headerValueValid(value) == value # "Invalid issuer: " \o IssuerWithLineFeed

NoChallenge == [scheme |-> Null, realm |-> Null, authorization_uri |-> Null,
                error |-> Null, error_description |-> Null]
NoBody == [error |-> Null, message |-> Null, authorization_uri |-> Null]
ServerUrl == "http://localhost:3000"
AuthorizeUrl == "https://login.microsoftonline.com/tenant/oauth2/v2.0/authorize"

\* sendUnauthorized: the response written, or nothing when res.header throws
\* (res.status(401) has run, nothing was sent, the exception propagates).
sendUnauthorized(error) ==
  IF headerValueValid(error)
    THEN [sent |-> TRUE, status |-> 401,
          wwwAuthenticate |-> [scheme |-> "Bearer", realm |-> ServerUrl,
                               authorization_uri |-> AuthorizeUrl,
                               error |-> "invalid_token", error_description |-> error],
          body |-> [error |-> "unauthorized", message |-> error,
                    authorization_uri |-> ServerUrl \o "/authorize"]]
    ELSE [sent |-> FALSE, status |-> 0, wwwAuthenticate |-> NoChallenge, body |-> NoBody]

NoResponse == [sent |-> FALSE, status |-> 0, wwwAuthenticate |-> NoChallenge, body |-> NoBody]

\* How one run of requireAuth / optionalAuth has gone so far.
\*   kind: "next" (next() called), "unauthorized" (sendUnauthorized called),
\*         "await" (suspended in axios.get)
\*   trace: what the run did: "decode" (jwt.decode), "cache" (tokenCache.get),
\*          "graph" (axios.get issued)
AuthRun(kind, user, response, trace, structure, entry, answer, t) ==
  [kind |-> kind, user |-> user, response |-> response, trace |-> trace,
   structure |-> structure, entry |-> entry, answer |-> answer, checkedAt |-> t]

NoStructure == [ok |-> FALSE, error |-> Null, payload |-> NoPayload]

Identity(payload, graphUser) == [iss |-> payload.iss, exp |-> payload.exp, graph |-> graphUser]

\* A requireAuth that falls back to a token in the query string when the
\* request has no usable Authorization header.
requireAuthEntryQueryFallback(req, cache, t) ==
  LET h == req.authorization
      token == IF h.present /\ startsWithBearer(h) THEN substring7(h) ELSE req.queryToken
      st == validateTokenStructure(token, t)
      hit == cacheLookup(cache, token, t)
  IN IF token = Null \/ token = ""
       THEN AuthRun("unauthorized", NoUser, sendUnauthorized("No token provided"),
                    {}, NoStructure, NoEntry, Null, t)
     ELSE IF ~st.ok
       THEN AuthRun("unauthorized", NoUser, sendUnauthorized(st.error),
                    {"decode"}, st, NoEntry, Null, t)
     ELSE IF hit # NoEntry
       THEN AuthRun("next", Identity(st.payload, hit.user), NoResponse,
                    {"decode", "cache"}, st, hit, Null, t)
     ELSE AuthRun("await", NoUser, NoResponse,
                  {"decode", "cache", "graph"}, st, NoEntry, Null, t)

\* requireAuth from its entry to its first await or to its end.
requireAuthEntry(req, cache, t) ==
  LET h == req.authorization IN
  IF ~h.present \/ (h.prefix = "" /\ h.rest = "")
    THEN AuthRun("unauthorized", NoUser, sendUnauthorized("No Authorization header provided"),
                 {}, NoStructure, NoEntry, Null, t)
  ELSE IF ~startsWithBearer(h)
    THEN AuthRun("unauthorized", NoUser,
                 sendUnauthorized("Invalid Authorization header format. Expected \"Bearer <token>\""),
                 {}, NoStructure, NoEntry, Null, t)
  ELSE IF substring7(h) = ""
    THEN AuthRun("unauthorized", NoUser, sendUnauthorized("No token provided"),
                 {}, NoStructure, NoEntry, Null, t)
  ELSE LET token == substring7(h)
           st == validateTokenStructure(token, t)
           hit == cacheLookup(cache, token, t)
       IN IF ~st.ok
            THEN AuthRun("unauthorized", NoUser, sendUnauthorized(st.error),
                         {"decode"}, st, NoEntry, Null, t)
          ELSE IF hit # NoEntry
            THEN AuthRun("next", Identity(st.payload, hit.user), NoResponse,
                         {"decode", "cache"}, st, hit, Null, t)
          ELSE AuthRun("await", NoUser, NoResponse,
                       {"decode", "cache", "graph"}, st, NoEntry, Null, t)

\* A requireAuth whose catch block lets the request through on the decoded,
\* unverified claims.
requireAuthResumeUnverified(run, g) ==
  [run EXCEPT !.kind = "next",
              !.user = Identity(run.structure.payload, IF g.ok THEN g.user ELSE "unverified")]

\* requireAuth resumed by the authority's answer; run is the suspended run.
requireAuthResume(run, g) ==
  IF g.ok
    THEN [run EXCEPT !.kind = "next", !.user = Identity(run.structure.payload, g.user)]
    ELSE [run EXCEPT !.kind = "unauthorized", !.response = sendUnauthorized(g.error)]

\* optionalAuth from its entry to its first await or to its end.
optionalAuthEntry(req, cache, t) ==
  LET h == req.authorization IN
  IF ~h.present \/ (h.prefix = "" /\ h.rest = "") \/ ~startsWithBearer(h)
    THEN AuthRun("next", NoUser, NoResponse, {}, NoStructure, NoEntry, Null, t)
  ELSE LET token == substring7(h)
           st == validateTokenStructure(token, t)
           hit == cacheLookup(cache, token, t)
       IN IF ~st.ok
            THEN AuthRun("next", NoUser, NoResponse, {"decode"}, st, NoEntry, Null, t)
          ELSE IF hit # NoEntry
            THEN AuthRun("next", Identity(st.payload, hit.user), NoResponse,
                         {"decode", "cache"}, st, hit, Null, t)
          ELSE AuthRun("await", NoUser, NoResponse,
                       {"decode", "cache", "graph"}, st, NoEntry, Null, t)

\* optionalAuth resumed by the authority's answer.
optionalAuthResume(run, g) ==
  IF g.ok
    THEN [run EXCEPT !.kind = "next", !.user = Identity(run.structure.payload, g.user)]
    ELSE [run EXCEPT !.kind = "next"]

vars == <<now, events, pkceStore, tokenStore, nextVerifier, nextState, cbInflight,
          lastAuthorize, lastCallback, redeemCount,
          tokenCache, revoked, authInflight, lastAuth,
          transports, requestContextStore, tports, mcpInflight, shutdown,
          issuedLog, lastMcp, toolRun>>

InitClock == now = 0 /\ events = 0

InitOauth ==
  /\ pkceStore = EmptyMap
  /\ tokenStore = EmptyMap
  /\ nextVerifier = 0
  /\ nextState = 0
  /\ cbInflight = [i \in 1..MaxInflight |-> Idle]
  /\ lastAuthorize = [state |-> Null, code_challenge |-> Null,
                      code_challenge_method |-> Null, stored |-> Null]
  /\ lastCallback = CallbackResponse(0, "none", Null)
  /\ redeemCount = EmptyMap

\* ====================================================== mcp/http-transport.ts
\* A JSON body: one message, or an array of messages (a JSON-RPC batch).  A
\* message is its method, whether it passes InitializeRequestSchema and, for
\* a tools/call, the name of the tool (params.name).
Message(method, wellFormed) ==
  [method |-> method, wellFormed |-> wellFormed, tool |-> Null]
ToolCall(name) == [method |-> "tools/call", wellFormed |-> FALSE, tool |-> name]
Single(m) == [isArray |-> FALSE, messages |-> <<m>>]
Batch(ms) == [isArray |-> TRUE, messages |-> ms]
NoBodyJson == [isArray |-> FALSE, messages |-> <<Message(Null, FALSE)>>]

\* isInitializeRequest(req.body): InitializeRequestSchema.safeParse succeeds;
\* it fails on an array.
isInitializeRequest(body) ==
  /\ ~body.isArray
  /\ body.messages[1].method = "initialize"
  /\ body.messages[1].wellFormed

\* req.body?.method: undefined on an array.
bodyMethod(body) == IF body.isArray THEN Null ELSE body.messages[1].method

\* The methods of the messages a body carries.
Methods(body) == {body.messages[i].method : i \in DOMAIN body.messages}

\* `transports` is a plain object: a lookup finds an own key, or else a
\* property inherited from Object.prototype (a function or object, truthy).
Undefined == 0
Inherited == -1
ObjectPrototypeKeys == {"constructor", "__proto__", "toString", "valueOf", "hasOwnProperty"}
\* A lookup that hands out the eldest registered handle whatever the key.
registryGetEldest(reg, sid) ==
  IF sid \in DOMAIN reg
    THEN reg[CHOOSE k \in DOMAIN reg : \A j \in DOMAIN reg : reg[k] <= reg[j]]
  ELSE IF sid \in ObjectPrototypeKeys THEN Inherited
  ELSE Undefined

registryGet(reg, sid) ==
  IF sid \in DOMAIN reg THEN reg[sid]
  ELSE IF sid \in ObjectPrototypeKeys THEN Inherited
  ELSE Undefined

\* randomUUID(): 122 random bits; the n-th call yields a value no earlier
\* call yielded.
UuidPool == <<"uuid-1", "uuid-2", "uuid-3", "uuid-4", "uuid-5", "uuid-6", "uuid-7", "uuid-8">>
\* A generator that repeats itself.
randomUUIDRepeating(n) == UuidPool[1]

randomUUID(n) == UuidPool[n + 1]

NoRun == AuthRun(Null, NoUser, NoResponse, {}, NoStructure, NoEntry, Null, 0)

\* mcpAuthMiddleware up to the first await: whether requireAuth was invoked
\* and how far its run got.
\* A middleware that sends every request through requireAuth.
mcpAuthMiddlewareGateAll(req, cache, t) ==
  [gated |-> TRUE, run |-> requireAuthEntry(req, cache, t)]

mcpAuthMiddleware(req, cache, t) ==
  IF isInitializeRequest(req.body)
    THEN [gated |-> FALSE, run |-> [NoRun EXCEPT !.kind = "next"]]
  ELSE IF bodyMethod(req.body) = "tools/call" \/ bodyMethod(req.body) = "tools/list"
    THEN [gated |-> TRUE, run |-> requireAuthEntry(req, cache, t)]
  ELSE [gated |-> FALSE, run |-> [NoRun EXCEPT !.kind = "next"]]

ActiveSids == {sid \in DOMAIN transports : ~tports[transports[sid]].closed}
ClosedSids == {tports[t].sessionId : t \in {x \in DOMAIN tports : tports[x].closed}}

\* The record of a finished request.  gate: "none" (requireAuth not invoked),
\* "accepted" (it called next()), "rejected" (it sent its 401), "threw".
\* status 0: no response was written.  wasActive / wasClosed: whether the
\* session the request names was Active / Closed when its handler ran (when
\* the request was handed to a handle or refused).
\* waiting: for a request served without the gate, the requests of the same
\* session that were suspended in requireAuth at that moment.  data: the
\* `error.data` member of a JSON-RPC error body.  replaced: the Authorization
\* header of the context entry that line 215 overwrote for this request.
McpDone(req, status, dispatched, created, gate, authResponse) ==
  [req |-> req, status |-> status, dispatched |-> dispatched,
   created |-> created, gate |-> gate, authResponse |-> authResponse,
   wasActive |-> req.sessionId \in ActiveSids,
   wasClosed |-> req.sessionId \in ClosedSids,
   waiting |-> IF gate = "none" /\ dispatched # 0 /\ status = 200
                 THEN {i \in DOMAIN authInflight :
                         /\ authInflight[i] # Idle
                         /\ req.sessionId # Null
                         /\ authInflight[i].req.sessionId = req.sessionId}
                 ELSE {},
   data |-> Null,
   replaced |-> NoHeader]

\* transport.handleRequest for a POST on an initialized transport: the SDK
\* refuses a second initialize and serves everything else.
transportPostStatus(body) ==
  IF \E i \in DOMAIN body.messages :
       body.messages[i].method = "initialize" /\ body.messages[i].wellFormed
    THEN 400
    ELSE 200

\* A close callback that leaves the registry and the context store alone.
oncloseKeepsEntries(reg, ctx, tid) == [transports |-> reg, context |-> ctx]

\* transport.onclose (lines 233-240) for the transport tid.
onclose(reg, ctx, tid) ==
  LET sid == tports[tid].sessionId
  IN IF sid # Null /\ registryGet(reg, sid) # Undefined
       THEN [transports |-> MapDelete(reg, sid), context |-> MapDelete(ctx, sid)]
       ELSE [transports |-> reg, context |-> ctx]

\* A store that keeps the entry a session already has.
StoredFirst(req) ==
  IF req.sessionId \in DOMAIN requestContextStore
    THEN requestContextStore[req.sessionId]
    ELSE [authorization |-> req.authorization]

\* What requestContextStore keeps of a request: the request object, of which
\* only headers.authorization is ever read back (line 55).
Stored(req) == [authorization |-> req.authorization]

FreeMcpSlots == {i \in DOMAIN mcpInflight : mcpInflight[i] = Idle}

\* The message of the TypeError thrown by a call of `handleRequest` on a
\* value that has no such method.
NotAFunction == "transport.handleRequest is not a function"

\* The catch block of handleMCPPost: a 500 whose JSON-RPC error carries the
\* message of the caught error as `data`.
internalServerError(req, gate, message) ==
  [McpDone(req, 500, 0, 0, gate, NoResponse) EXCEPT !.data = message]

\* `requestContextStore.get(sessionId)?.headers?.authorization`.
contextAuthorization(ctx, sessionId) ==
  IF sessionId \in DOMAIN ctx THEN ctx[sessionId].authorization ELSE NoHeader

\* Whether `await transport.handleRequest` (line 264) leaves the handler
\* suspended with no response written: the payload calls get-user-info, and
\* the callback finds a header that starts with "Bearer " in the context
\* (lines 54-57) and goes on to `await axios.get` (line 68).  Every other
\* message is answered in microtasks of the same turn of the event loop.
toolAwaitsGraph(body, authHeader) ==
  /\ \E i \in DOMAIN body.messages :
       body.messages[i].method = "tools/call" /\ body.messages[i].tool = "get-user-info"
  /\ authHeader.present
  /\ authHeader.prefix \o authHeader.rest # ""
  /\ startsWithBearer(authHeader)

\* handleMCPPost from its entry to its first await or to its response.
handleMCPPost(req, gate) ==
  LET sessionId == req.sessionId
      found == IF sessionId = Null THEN Undefined ELSE registryGet(transports, sessionId)
      replaced == IF sessionId \in DOMAIN requestContextStore
                    THEN requestContextStore[sessionId].authorization
                    ELSE NoHeader
      served == [McpDone(req, transportPostStatus(req.body), found, 0, gate, NoResponse)
                   EXCEPT !.replaced = replaced]
      authHeader == contextAuthorization(
                      MapSet(requestContextStore, sessionId, Stored(req)), sessionId)
  IN IF sessionId # Null /\ found # Undefined
       THEN /\ requestContextStore' = MapSet(requestContextStore, sessionId, Stored(req))
            /\ IF found = Inherited
                 THEN /\ lastMcp' = [internalServerError(req, gate, NotAFunction)
                                       EXCEPT !.replaced = replaced]
                      /\ UNCHANGED mcpInflight
               ELSE IF served.status = 200 /\ toolAwaitsGraph(req.body, authHeader)
                 THEN /\ \E i \in FreeMcpSlots :
                           mcpInflight' = [mcpInflight EXCEPT ![i] =
                             [pc |-> "tool", req |-> req, gate |-> gate,
                              transport |-> found, newSessionId |-> Null,
                              authHeader |-> authHeader, served |-> served]]
                      /\ UNCHANGED lastMcp
                 ELSE /\ lastMcp' = served
                      /\ UNCHANGED mcpInflight
            /\ UNCHANGED <<transports, tports, issuedLog>>
     ELSE IF sessionId = Null /\ isInitializeRequest(req.body)
       THEN /\ tports' = Append(tports, [sessionId |-> Null, closed |-> FALSE])
            /\ \E i \in FreeMcpSlots :
                 mcpInflight' = [mcpInflight EXCEPT ![i] =
                   [pc |-> "connect", req |-> req, gate |-> gate,
                    transport |-> Len(tports) + 1,
                    newSessionId |-> randomUUID(Len(tports))]]
            /\ UNCHANGED <<transports, requestContextStore, issuedLog, lastMcp>>
     ELSE /\ lastMcp' = McpDone(req, 400, 0, 0, gate, NoResponse)
          /\ UNCHANGED <<transports, requestContextStore, tports, mcpInflight, issuedLog>>

\* POST /mcp and POST /: mcpAuthMiddleware, then handleMCPPost.
McpPost(req) ==
  LET g == mcpAuthMiddleware(req, tokenCache, now)
  IN /\ Event(MaxMcpEvents)
     /\ UNCHANGED lastAuth
     /\ IF g.run.kind = "next"
          THEN /\ handleMCPPost(req, IF g.gated THEN "accepted" ELSE "none")
               /\ UNCHANGED <<authInflight, tokenCache, revoked, shutdown>>
        ELSE IF g.run.kind = "unauthorized" /\ ~g.run.response.sent
          THEN /\ lastMcp' = McpDone(req, 0, 0, 0, "threw", g.run.response)
               /\ UnhandledRejection
        ELSE IF g.run.kind = "unauthorized"
          THEN /\ lastMcp' = McpDone(req, g.run.response.status, 0, 0, "rejected",
                                     g.run.response)
               /\ UNCHANGED <<transports, requestContextStore, tports, mcpInflight,
                              issuedLog, authInflight, tokenCache, revoked, shutdown>>
        ELSE /\ \E i \in FreeAuthSlots :
                  authInflight' = [authInflight EXCEPT ![i] =
                    [pc |-> "graph", mw |-> "requireAuth", req |-> req, run |-> g.run]]
             /\ UNCHANGED <<transports, requestContextStore, tports, mcpInflight,
                            issuedLog, lastMcp, tokenCache, revoked, shutdown>>

\* A gated POST resumed by the authority's answer.
McpGateAnswer(i, answer) ==
  /\ authInflight[i] # Idle
  /\ LET f == authInflight[i]
         token == substring7(f.req.authorization)
         g == graphResume(tokenCache, token, answer, now)
         run == requireAuthResume([f.run EXCEPT !.answer = answer], g)
     IN /\ answer \in AuthorityAnswers(token)
        /\ IF run.kind = "next"
             THEN /\ handleMCPPost(f.req, "accepted")
                  /\ tokenCache' = g.cache
                  /\ authInflight' = [authInflight EXCEPT ![i] = Idle]
                  /\ UNCHANGED <<revoked, shutdown>>
           ELSE IF ~run.response.sent
             THEN /\ lastMcp' = McpDone(f.req, 0, 0, 0, "threw", run.response)
                  /\ UnhandledRejection
             ELSE /\ lastMcp' = McpDone(f.req, run.response.status, 0, 0, "rejected",
                                        run.response)
                  /\ tokenCache' = g.cache
                  /\ authInflight' = [authInflight EXCEPT ![i] = Idle]
                  /\ UNCHANGED <<transports, requestContextStore, tports, mcpInflight,
                                 issuedLog, revoked, shutdown>>
  /\ UNCHANGED <<lastAuth, events>>

\* handleMCPPost resumed after `await server.connect(transport)`: the new
\* transport handles the initialize request, takes its session id from
\* sessionIdGenerator and calls onsessioninitialized.
McpConnected(i) ==
  /\ mcpInflight[i] # Idle
  /\ mcpInflight[i].pc = "connect"
  /\ LET f == mcpInflight[i]
         sid == f.newSessionId
     IN /\ tports' = [tports EXCEPT ![f.transport].sessionId = sid]
        /\ transports' = MapSet(transports, sid, f.transport)
        /\ issuedLog' = Append(issuedLog, <<sid, f.transport>>)
        /\ lastMcp' = McpDone(f.req, 200, f.transport, f.transport, f.gate, NoResponse)
        /\ mcpInflight' = [mcpInflight EXCEPT ![i] = Idle]
  /\ UNCHANGED <<requestContextStore, shutdown, events>>
  /\ UNCHANGED authVars

\* handleMCPPost resumed after `await transport.handleRequest`: the
\* authority has answered get-user-info (or the 5 s timeout of line 72 has
\* passed), the tool result goes out and the response of the POST ends.
McpToolAnswer(i) ==
  /\ mcpInflight[i] # Idle
  /\ mcpInflight[i].pc = "tool"
  /\ lastMcp' = mcpInflight[i].served
  /\ mcpInflight' = [mcpInflight EXCEPT ![i] = Idle]
  /\ UNCHANGED <<transports, requestContextStore, tports, issuedLog, shutdown, events>>
  /\ UNCHANGED authVars

\* GET /mcp and GET /: handleMCPGet.  The handler has no try/catch: the
\* TypeError of line 295 on a value that is no transport rejects the promise
\* of the handler, no response is written and the process ends.
handleMCPGet(req) ==
  LET sessionId == req.sessionId
      found == IF sessionId = Null THEN Undefined ELSE registryGet(transports, sessionId)
  IN /\ Event(MaxMcpEvents)
     /\ UNCHANGED lastAuth
     /\ IF sessionId # Null /\ found = Inherited
          THEN /\ lastMcp' = McpDone(req, 0, 0, 0, "none", NoResponse)
               /\ UnhandledRejection
          ELSE /\ lastMcp' = IF sessionId = Null \/ found = Undefined
                               THEN McpDone(req, 400, 0, 0, "none", NoResponse)
                               ELSE McpDone(req, 200, found, 0, "none", NoResponse)
               /\ UNCHANGED <<transports, requestContextStore, tports, mcpInflight,
                              issuedLog, shutdown>>
               /\ UNCHANGED <<tokenCache, revoked, authInflight>>

\* A DELETE route with the gate in front of the handler: a request that
\* requireAuth does not let through at once is answered 401.
handleMCPDeleteGated(req) ==
  LET sessionId == req.sessionId
      found == IF sessionId = Null THEN Undefined ELSE registryGet(transports, sessionId)
      run == requireAuthEntry(req, tokenCache, now)
  IN /\ Event(MaxMcpEvents)
     /\ IF run.kind # "next"
          THEN /\ lastMcp' = McpDone(req, 401, 0, 0, "rejected",
                                     sendUnauthorized("No Authorization header provided"))
               /\ UNCHANGED <<transports, requestContextStore, tports>>
        ELSE IF sessionId = Null \/ found = Undefined
          THEN /\ lastMcp' = McpDone(req, 400, 0, 0, "accepted", NoResponse)
               /\ UNCHANGED <<transports, requestContextStore, tports>>
        ELSE IF found = Inherited
          THEN /\ lastMcp' = McpDone(req, 500, 0, 0, "accepted", NoResponse)
               /\ UNCHANGED <<transports, requestContextStore, tports>>
        ELSE /\ lastMcp' = McpDone(req, 200, found, 0, "accepted", NoResponse)
             /\ tports' = [tports EXCEPT ![found].closed = TRUE]
             /\ transports' = onclose(transports, requestContextStore, found).transports
             /\ requestContextStore' = onclose(transports, requestContextStore, found).context
     /\ UNCHANGED <<mcpInflight, issuedLog, shutdown>>
     /\ UNCHANGED authVars

\* DELETE /mcp and DELETE /: handleMCPDelete.  The transport closes itself on
\* a DELETE and calls onclose.
handleMCPDelete(req) ==
  LET sessionId == req.sessionId
      found == IF sessionId = Null THEN Undefined ELSE registryGet(transports, sessionId)
  IN /\ Event(MaxMcpEvents)
     /\ IF sessionId = Null \/ found = Undefined
          THEN /\ lastMcp' = McpDone(req, 400, 0, 0, "none", NoResponse)
               /\ UNCHANGED <<transports, requestContextStore, tports>>
        ELSE IF found = Inherited
          THEN /\ lastMcp' = McpDone(req, 500, 0, 0, "none", NoResponse)
               /\ UNCHANGED <<transports, requestContextStore, tports>>
        ELSE /\ lastMcp' = McpDone(req, 200, found, 0, "none", NoResponse)
             /\ tports' = [tports EXCEPT ![found].closed = TRUE]
             /\ transports' = onclose(transports, requestContextStore, found).transports
             /\ requestContextStore' = onclose(transports, requestContextStore, found).context
     /\ UNCHANGED <<mcpInflight, issuedLog, shutdown>>
     /\ UNCHANGED authVars

\* The keys of `transports` in insertion order, as for-in visits them.
RegistryKeys ==
  LET all == [i \in DOMAIN issuedLog |-> issuedLog[i][1]]
      Own(sid) == sid \in DOMAIN transports
  IN SelectSeq(all, Own)

\* transport.close() on the session sid followed by `delete transports[sid]`;
\* for-in skips a key deleted before its turn.
closeAll(keys, reg, ctx, tp) ==
  [transports |-> [k \in {x \in DOMAIN reg : \A i \in DOMAIN keys : keys[i] # x} |-> reg[k]],
   context |-> [k \in {x \in DOMAIN ctx : \A i \in DOMAIN keys : keys[i] # x
                                          \/ x \notin DOMAIN reg} |-> ctx[k]],
   tports |-> [t \in DOMAIN tp |->
                 IF \E i \in DOMAIN keys : keys[i] \in DOMAIN reg /\ reg[keys[i]] = t
                   THEN [tp[t] EXCEPT !.closed = TRUE] ELSE tp[t]]]

\* One turn of the loop body up to its await: transport.close() on the
\* session sid either succeeds (the transport ends its streams and calls
\* onclose) or throws, and then nothing has changed.
closeKey(sid, ok) ==
  IF ok
    THEN closeAll(<<sid>>, transports, requestContextStore, tports)
    ELSE [transports |-> transports, context |-> requestContextStore, tports |-> tports]

\* completed: the handler has run to its last line ('MCP server shutdown
\* complete') at least once.  exited: the process has ended, with exitCode.
ShutdownIdle == [running |-> FALSE, keys |-> <<>>, atSignal |-> {}, failed |-> {},
                 completed |-> FALSE, exited |-> FALSE, exitCode |-> 0]

\* process.on('SIGINT'): the handler up to its first await (the close of the
\* first key), or to its end on an empty registry.
SigintStart ==
  /\ Event(MaxMcpEvents)
  /\ ~shutdown.running
  /\ LET keys == RegistryKeys
     IN IF keys = <<>>
          THEN /\ shutdown' = [ShutdownIdle EXCEPT !.completed = TRUE]
               /\ UNCHANGED <<transports, requestContextStore, tports>>
          ELSE \E ok \in BOOLEAN :
                 LET c == closeKey(Head(keys), ok)
                 IN /\ shutdown' = [running |-> TRUE, keys |-> keys,
                                    atSignal |-> {keys[i] : i \in DOMAIN keys},
                                    failed |-> IF ok THEN {} ELSE {Head(keys)},
                                    completed |-> shutdown.completed,
                                    exited |-> FALSE, exitCode |-> 0]
                    /\ transports' = c.transports
                    /\ requestContextStore' = c.context
                    /\ tports' = c.tports
  /\ UNCHANGED <<mcpInflight, issuedLog, lastMcp>>
  /\ UNCHANGED authVars

\* A handler whose try/catch is around the whole loop: the first close that
\* throws ends the loop.
SigintStepStopsOnFailure ==
  /\ shutdown.running
  /\ LET cur == Head(shutdown.keys)
         rest == Tail(shutdown.keys)
         Own(sid) == sid \in DOMAIN transports
         left == IF cur \in shutdown.failed THEN <<>> ELSE SelectSeq(rest, Own)
     IN IF left = <<>>
          THEN /\ shutdown' = [shutdown EXCEPT !.running = FALSE, !.keys = <<>>,
                                                !.completed = TRUE]
               /\ transports' = IF cur \in shutdown.failed
                                  THEN transports ELSE MapDelete(transports, cur)
               /\ UNCHANGED <<requestContextStore, tports>>
          ELSE \E ok \in BOOLEAN :
                 LET c == closeKey(Head(left), ok)
                 IN /\ shutdown' = [shutdown EXCEPT !.keys = left,
                                      !.failed = IF ok THEN @ ELSE @ \cup {Head(left)}]
                    /\ transports' = MapDelete(c.transports, cur)
                    /\ requestContextStore' = c.context
                    /\ tports' = c.tports
  /\ UNCHANGED <<mcpInflight, issuedLog, lastMcp, events>>
  /\ UNCHANGED authVars

\* The SIGINT handler resumed after `await transports[sessionId].close()`:
\* the delete of that key, or the catch block when the close threw, then the
\* close of the next key still present.
SigintStep ==
  /\ shutdown.running
  /\ LET cur == Head(shutdown.keys)
         rest == Tail(shutdown.keys)
         Own(sid) == sid \in DOMAIN transports
         left == SelectSeq(rest, Own)
         Deleted(reg) == IF cur \in shutdown.failed THEN reg ELSE MapDelete(reg, cur)
     IN IF left = <<>>
          THEN /\ shutdown' = [shutdown EXCEPT !.running = FALSE, !.keys = <<>>,
                                                !.completed = TRUE]
               /\ transports' = Deleted(transports)
               /\ UNCHANGED <<requestContextStore, tports>>
          ELSE \E ok \in BOOLEAN :
                 LET c == closeKey(Head(left), ok)
                 IN /\ shutdown' = [shutdown EXCEPT !.keys = left,
                                      !.failed = IF ok THEN @ ELSE @ \cup {Head(left)}]
                    /\ transports' = Deleted(c.transports)
                    /\ requestContextStore' = c.context
                    /\ tports' = c.tports
  /\ UNCHANGED <<mcpInflight, issuedLog, lastMcp, events>>
  /\ UNCHANGED authVars

\* A request as the middleware sees it.
Request(method, sessionId, authorization, body, queryToken) ==
  [method |-> method, sessionId |-> sessionId, authorization |-> authorization,
   body |-> body, queryToken |-> queryToken]
NoRequest == Request(Null, Null, NoHeader, NoBodyJson, Null)

\* =============================================== the tools: get-user-info
\* The outcome of a tool invocation.  kind: "result" (a tool result; isError
\* is its isError member), "throw" (the callback threw and nothing caught
\* it), "invalid_params" (the arguments failed the tool's schema), "http"
\* (a response of the REST endpoint with that status).  error: the error
\* message in the content or body; text / value: the payload.
NoValue == [num |-> 0, den |-> 0]
Outcome(kind, status, isError, error, text, value) ==
  [kind |-> kind, status |-> status, isError |-> isError, error |-> error,
   text |-> text, value |-> value]
NoOutcome == Outcome("none", 0, FALSE, Null, Null, NoValue)

\* What the try block of get-user-info ends in besides its result: an Error
\* thrown by the callback itself, or the rejection of axios.get with the
\* status of the authority's response (0 when there is none).
ThrownError(message) == [axios |-> FALSE, status |-> 0, message |-> message]
AxiosError(status) == [axios |-> TRUE, status |-> status, message |-> "Request failed"]

NoAccessToken == "No access token found. Please authenticate first."
ReAuthenticate == "Access token is invalid or expired. Please re-authenticate."
GraphApiError == "Graph API error"

\* A catch block that passes the error on.
getUserInfoRethrows(error) == Outcome("throw", 0, FALSE, error.message, Null, NoValue)

\* The catch block of get-user-info: a tool result whose text names the error.
getUserInfoCatch(error) ==
  LET errorMessage ==
        IF error.axios
          THEN IF error.status = 401 THEN ReAuthenticate ELSE GraphApiError
          ELSE error.message
  IN Outcome("result", 0, FALSE, errorMessage, Null, NoValue)

\* The try block after `await axios.get`: the combined result on a 200.
getUserInfoResume(token, answer) ==
  IF answer = "ok"
    THEN Outcome("result", 0, FALSE, Null, GraphProfile(token), NoValue)
  ELSE IF answer = "401" THEN getUserInfoCatch(AxiosError(401))
  ELSE IF answer = "500" THEN getUserInfoCatch(AxiosError(500))
  ELSE getUserInfoCatch(AxiosError(0))

\* ============================================================ mcp/tools.ts
\* A member of a JSON body: a number, a string, null, or absent.
JsonNumber(n) == [type |-> "number", n |-> n, s |-> ""]
JsonString(s) == [type |-> "string", n |-> 0, s |-> s]
JsonNull == [type |-> "null", n |-> 0, s |-> ""]
JsonAbsent == [type |-> "undefined", n |-> 0, s |-> ""]

\* parseFloat: a number is parsed from its decimal form, a string from its
\* longest numeric prefix; everything else is NaN.
NaN == [nan |-> TRUE, n |-> 0]
Number(n) == [nan |-> FALSE, n |-> n]
parseFloat(v) ==
  IF v.type = "number" THEN Number(v.n)
  ELSE IF v.type = "string"
    THEN CASE v.s = "0"    -> Number(0)
           [] v.s = "1abc" -> Number(1)
           [] OTHER        -> NaN
  ELSE NaN

\* The number a / b as the fraction num / den.
Fraction(num, den) == [num |-> num, den |-> den]
BadRequest(message) == Outcome("http", 400, TRUE, message, Null, NoValue)
CalcArgs(operation, a, b) == [operation |-> operation, a |-> a, b |-> b]
NoArgs == CalcArgs(Null, JsonAbsent, JsonAbsent)

\* A handler that divides without looking at the divisor.
calculateRestUnguarded(body) ==
  Outcome("http", 200, FALSE, Null, Null,
          Fraction(parseFloat(body.a).n, parseFloat(body.b).n))

\* POST /tools/calculate after requireAuth.
calculateRest(body) ==
  LET numA == parseFloat(body.a)
      numB == parseFloat(body.b)
      Ok(value) == Outcome("http", 200, FALSE, Null, Null, value)
  IN IF body.operation = Null \/ body.operation = ""
          \/ body.a.type = "undefined" \/ body.b.type = "undefined"
       THEN BadRequest("Missing required parameters: operation, a, b")
     ELSE IF numA.nan \/ numB.nan
       THEN BadRequest("Parameters a and b must be valid numbers")
     ELSE IF body.operation = "add" THEN Ok(Fraction(numA.n + numB.n, 1))
     ELSE IF body.operation = "subtract" THEN Ok(Fraction(numA.n - numB.n, 1))
     ELSE IF body.operation = "multiply" THEN Ok(Fraction(numA.n * numB.n, 1))
     ELSE IF body.operation = "divide"
       THEN IF numB.n = 0
              THEN BadRequest("Cannot divide by zero")
              ELSE Ok(Fraction(numA.n, numB.n))
     ELSE BadRequest("Invalid operation. Supported: add, subtract, multiply, divide")

\* The `calculate` tool of the protocol endpoint: its schema (an operation of
\* the enum, two numbers), then its callback; an Error thrown by the callback
\* reaches the client as a tool result with isError set.
calculateTool(args) ==
  LET Ok(value) == Outcome("result", 0, FALSE, Null, Null, value)
  IN IF args.operation \notin {"add", "subtract", "multiply", "divide"}
          \/ args.a.type # "number" \/ args.b.type # "number"
       THEN Outcome("invalid_params", 0, TRUE, "Invalid arguments for tool calculate",
                    Null, NoValue)
     ELSE IF args.operation = "add" THEN Ok(Fraction(args.a.n + args.b.n, 1))
     ELSE IF args.operation = "subtract" THEN Ok(Fraction(args.a.n - args.b.n, 1))
     ELSE IF args.operation = "multiply" THEN Ok(Fraction(args.a.n * args.b.n, 1))
     ELSE IF args.b.n = 0
       THEN Outcome("result", 0, TRUE, "Division by zero", Null, NoValue)
       ELSE Ok(Fraction(args.a.n, args.b.n))

\* A tool invocation: which tool on which endpoint, where it stands, what it
\* was given (the Authorization header found in the request context, the
\* authority's answer, the arguments) and its outcome.
ToolRun(tool, endpoint, phase, header, answer, args, outcome) ==
  [tool |-> tool, endpoint |-> endpoint, phase |-> phase, header |-> header,
   answer |-> answer, args |-> args, outcome |-> outcome]
NoToolRun == ToolRun(Null, Null, "idle", NoHeader, Null, NoArgs, NoOutcome)

\* The get-user-info callback from its entry to `await axios.get`, or to its
\* result when the context holds no bearer token.
GetUserInfoStart(ctx, sessionId) ==
  /\ ~shutdown.exited
  /\ toolRun.phase # "graph"
  /\ LET authHeader == contextAuthorization(ctx, sessionId)
     IN toolRun' =
          IF ~authHeader.present \/ authHeader.prefix \o authHeader.rest = ""
               \/ ~startsWithBearer(authHeader)
            THEN ToolRun("get-user-info", "mcp", "done", authHeader, Null, NoArgs,
                         getUserInfoCatch(ThrownError(NoAccessToken)))
            ELSE ToolRun("get-user-info", "mcp", "graph", authHeader, Null, NoArgs,
                         NoOutcome)

\* The get-user-info callback resumed by the authority's answer.
GetUserInfoAnswer(answer) ==
  /\ ~shutdown.exited
  /\ toolRun.phase = "graph"
  /\ toolRun' = [toolRun EXCEPT !.phase = "done", !.answer = answer,
                   !.outcome = getUserInfoResume(substring7(toolRun.header), answer)]

\* A call of the calculate tool on the REST endpoint / the protocol endpoint.
CalculateRest(body) ==
  /\ ~shutdown.exited
  /\ toolRun.phase # "graph"
  /\ toolRun' = ToolRun("calculate", "rest", "done", NoHeader, Null, body,
                        calculateRest(body))
CalculateMcp(args) ==
  /\ ~shutdown.exited
  /\ toolRun.phase # "graph"
  /\ toolRun' = ToolRun("calculate", "mcp", "done", NoHeader, Null, args,
                        calculateTool(args))

\* The authority rejects a forged token and one with "exp": 0 from the start.
InitAuth ==
  /\ tokenCache = EmptyMap
  /\ revoked = {"tForged", "tExpZero"}
  /\ authInflight = [i \in 1..MaxAuthInflight |-> Idle]
  /\ lastAuth = [mw |-> Null, req |-> NoRequest,
                 run |-> AuthRun(Null, NoUser, NoResponse, {}, NoStructure, NoEntry, Null, 0)]

InitMcp ==
  /\ transports = EmptyMap
  /\ requestContextStore = EmptyMap
  /\ tports = <<>>
  /\ mcpInflight = [i \in 1..MaxMcpInflight |-> Idle]
  /\ shutdown = ShutdownIdle
  /\ issuedLog = <<>>
  /\ lastMcp = [req |-> NoRequest, status |-> 0, dispatched |-> 0,
                created |-> 0, gate |-> "none", authResponse |-> NoResponse,
                wasActive |-> FALSE, wasClosed |-> FALSE, waiting |-> {},
                data |-> Null, replaced |-> NoHeader]

InitTools == toolRun = NoToolRun

Init == InitClock /\ InitOauth /\ InitAuth /\ InitMcp /\ InitTools

\* ------------------------------------------------------------ SpecPkce
\* The authorization flow handler of oauth.ts under the wall clock.
\* The clock steps of the flow: a millisecond, the life of a verifier, the
\* life of a token record.
PkceTick == \E d \in {1, PkceTtlMs, ExpiresInSec * 1000} : Tick(d, MaxEvents) /\ UNCHANGED <<oauthVars, authVars, mcpVars>>
  /\ UNCHANGED toolVars

PkceAuthorize ==
  /\ \E st \in ClientStates \cup {Null} :
     \E cc \in ClientChallenges \cup {Null} :
     \E ccm \in {"S256", Null} : Authorize(st, cc, ccm)
  /\ UNCHANGED <<clockVars, authVars, mcpVars>>
  /\ UNCHANGED toolVars

PkceCallbackStart ==
  /\ \E code \in Codes \cup {Null} :
     \E st \in ClientStates \cup {GeneratedState(0), Null} :
     \E err \in {"access_denied", Null} :
     \E cv \in ClientVerifiers \cup {Null} : CallbackStart(code, st, err, cv)
  /\ UNCHANGED <<clockVars, authVars, mcpVars>>
  /\ UNCHANGED toolVars

PkceCallbackFinish ==
  /\ \E i \in DOMAIN cbInflight :
     \E answer \in TokenEndpointAnswers :
     \E at \in AccessTokens :
     \E sessionId \in RecordIds : CallbackFinish(i, answer, at, sessionId)
  /\ UNCHANGED <<clockVars, authVars, mcpVars>>
  /\ UNCHANGED toolVars

PkceGetToken ==
  /\ \E sessionId \in RecordIds : GetTokenFromStore(sessionId)
  /\ UNCHANGED <<clockVars, authVars, mcpVars>>
  /\ UNCHANGED toolVars

NextPkce ==
  \/ PkceTick
  \/ PkceAuthorize
  \/ PkceCallbackStart
  \/ PkceCallbackFinish
  \/ PkceGetToken

SpecPkce == Init /\ [][NextPkce]_vars

\* The token exchange under a timeout: axios rejects the pending POST once
\* TokenExchangeTimeoutMs have passed.  The handler passes no `timeout`
\* option to axios.post, and the axios default of 0 means no timeout.
TokenExchangeTimeout ==
  /\ TokenExchangeTimeoutMs > 0
  /\ \E i \in DOMAIN cbInflight :
     \E at \in AccessTokens :
     \E sessionId \in RecordIds : CallbackFinish(i, "network_error", at, sessionId)
  /\ UNCHANGED <<clockVars, authVars, mcpVars>>
  /\ UNCHANGED toolVars

\* The authorization flow with time passing; a suspended /callback is sure to
\* be resumed only by a timeout, the authority owes no answer.
SpecPkceLive ==
  /\ Init
  /\ [][NextPkce]_vars
  /\ WF_vars(PkceTick)
  /\ WF_vars(TokenExchangeTimeout)

\* ------------------------------------------------------------ SpecAuth
\* A route guarded by requireAuth or by optionalAuth, the token cache, the
\* authority and the wall clock.
\* A request reaches the middleware mw: the run up to its first await.
AuthArrive(mw, req) ==
  LET run == IF mw = "requireAuth"
               THEN requireAuthEntry(req, tokenCache, now)
               ELSE optionalAuthEntry(req, tokenCache, now)
  IN /\ Event(MaxAuthEvents)
     /\ IF run.kind = "await"
          THEN /\ \E i \in FreeAuthSlots :
                    authInflight' = [authInflight EXCEPT ![i] =
                                       [pc |-> "graph", mw |-> mw, req |-> req, run |-> run]]
               /\ UNCHANGED <<lastAuth, tokenCache, revoked, shutdown>>
        ELSE IF run.kind = "unauthorized" /\ ~run.response.sent
          THEN /\ lastAuth' = [mw |-> mw, req |-> req, run |-> run]
               /\ UnhandledRejection
          ELSE /\ lastAuth' = [mw |-> mw, req |-> req, run |-> run]
               /\ UNCHANGED <<authInflight, tokenCache, revoked, shutdown>>

\* The authority answers the axios.get of the run in slot i.
AuthGraphAnswer(i, answer) ==
  /\ authInflight[i] # Idle
  /\ LET f == authInflight[i]
         token == substring7(f.req.authorization)
         g == graphResume(tokenCache, token, answer, now)
         run == IF f.mw = "requireAuth"
                  THEN requireAuthResume([f.run EXCEPT !.answer = answer], g)
                  ELSE optionalAuthResume([f.run EXCEPT !.answer = answer], g)
     IN /\ answer \in AuthorityAnswers(token)
        /\ lastAuth' = [mw |-> f.mw, req |-> f.req, run |-> run]
        /\ IF run.kind = "unauthorized" /\ ~run.response.sent
             THEN UnhandledRejection
             ELSE /\ tokenCache' = g.cache
                  /\ authInflight' = [authInflight EXCEPT ![i] = Idle]
                  /\ UNCHANGED <<revoked, shutdown>>
  /\ UNCHANGED events

\* The authority revokes a token.
Revoke(token) ==
  /\ Event(MaxAuthEvents)
  /\ token \notin revoked
  /\ revoked' = revoked \cup {token}
  /\ UNCHANGED <<tokenCache, authInflight, lastAuth>>

\* The setInterval callback of lines 41-48.
CacheSweep ==
  /\ tokenCache' = cacheSweep(tokenCache, now)
  /\ tokenCache' # tokenCache
  /\ UNCHANGED <<revoked, authInflight, lastAuth, events>>

EmptyHeader == [present |-> TRUE, prefix |-> "", rest |-> ""]
AuthHeaders ==
  {NoHeader, EmptyHeader, BasicHeader, RawTokenHeader, Bearer("")}
  \cup {Bearer(t) : t \in Tokens}
AuthRequests ==
  {Request("GET", Null, h, NoBodyJson, Null) : h \in AuthHeaders}
  \cup {Request("GET", Null, h, NoBodyJson, "tGood") : h \in {NoHeader, BasicHeader}}

AuthTick ==
  \E d \in TickSteps : Tick(d, MaxAuthEvents) /\ UNCHANGED <<oauthVars, authVars, mcpVars>>
  /\ UNCHANGED toolVars
AuthRequire ==
  /\ \E req \in AuthRequests : AuthArrive("requireAuth", req)
  /\ UNCHANGED lastMcp
  /\ Survives(<<clockVars, oauthVars, transports, requestContextStore, tports,
                mcpInflight, issuedLog, toolVars>>)
AuthOptional ==
  /\ \E req \in AuthRequests : AuthArrive("optionalAuth", req)
  /\ UNCHANGED lastMcp
  /\ Survives(<<clockVars, oauthVars, transports, requestContextStore, tports,
                mcpInflight, issuedLog, toolVars>>)
AuthAnswer ==
  /\ \E i \in DOMAIN authInflight : \E answer \in GraphAnswers : AuthGraphAnswer(i, answer)
  /\ UNCHANGED lastMcp
  /\ Survives(<<clockVars, oauthVars, transports, requestContextStore, tports,
                mcpInflight, issuedLog, toolVars>>)
AuthRevoke ==
  /\ \E token \in {"tGood"} : Revoke(token)
  /\ UNCHANGED <<clockVars, oauthVars, mcpVars>>
  /\ UNCHANGED toolVars
AuthSweep == CacheSweep /\ UNCHANGED <<clockVars, oauthVars, mcpVars>>
  /\ UNCHANGED toolVars

NextAuth ==
  \/ AuthTick
  \/ AuthRequire
  \/ AuthOptional
  \/ AuthAnswer
  \/ AuthRevoke
  \/ AuthSweep

SpecAuth == Init /\ [][NextAuth]_vars

\* -------------------------------------------------------- SpecResolve
\* Concurrent requests to one route guarded by requireAuth: several runs may
\* be suspended in validateTokenViaGraphAPI at once.  Date.now() has
\* millisecond resolution: the short step of this clock is no whole number of
\* seconds.
ResolveTickSteps == {1500, CacheTtlMs}
ResolveTokens == {"tGood", "tBrief"}
ResolveRequests == {Request("GET", Null, Bearer(t), NoBodyJson, Null) : t \in ResolveTokens}

InitResolve ==
  /\ InitClock /\ InitOauth /\ InitMcp /\ InitTools
  /\ tokenCache = EmptyMap
  /\ revoked = {"tForged", "tExpZero"}
  /\ authInflight = [i \in 1..MaxResolving |-> Idle]
  /\ lastAuth = [mw |-> Null, req |-> NoRequest,
                 run |-> AuthRun(Null, NoUser, NoResponse, {}, NoStructure, NoEntry, Null, 0)]

ResolveTick ==
  /\ \E d \in ResolveTickSteps : Tick(d, MaxAuthEvents)
  /\ UNCHANGED <<oauthVars, authVars, mcpVars, toolVars>>
ResolveRequire ==
  /\ \E req \in ResolveRequests : AuthArrive("requireAuth", req)
  /\ UNCHANGED lastMcp
  /\ Survives(<<clockVars, oauthVars, transports, requestContextStore, tports,
                mcpInflight, issuedLog, toolVars>>)
ResolveAnswer ==
  /\ \E i \in DOMAIN authInflight : \E answer \in GraphAnswers : AuthGraphAnswer(i, answer)
  /\ UNCHANGED lastMcp
  /\ Survives(<<clockVars, oauthVars, transports, requestContextStore, tports,
                mcpInflight, issuedLog, toolVars>>)

NextResolve ==
  \/ ResolveTick
  \/ ResolveRequire
  \/ ResolveAnswer

SpecResolve == InitResolve /\ [][NextResolve]_vars

\* ------------------------------------------------------------ SpecMcp
\* The protocol endpoint: POST / GET / DELETE on /mcp and /, the bearer gate
\* in front of POST, and the SIGINT handler.
McpSessionHeaders ==
  {Null, "never-issued", "constructor"} \cup {randomUUID(n - 1) : n \in 1..Len(tports)}
McpAuthHeaders == {NoHeader, BasicHeader, Bearer("tGood")}
McpBodies ==
  {Single(Message("initialize", TRUE)),
   Single(ToolCall("get-user-info")),
   Single(Message("ping", FALSE)),
   Batch(<<ToolCall("get-user-info")>>),
   Batch(<<Message("initialize", TRUE)>>)}

\* The POST requests: every header with every body, and a tools/call whose
\* token has a line feed in its issuer.
McpPostRequests ==
  {Request("POST", sid, h, body, Null) :
     sid \in McpSessionHeaders, h \in McpAuthHeaders, body \in McpBodies}
  \cup {Request("POST", sid, Bearer("tLineFeed"), Single(ToolCall("get-user-info")), Null) :
          sid \in McpSessionHeaders}

McpPostRequest ==
  /\ \E req \in McpPostRequests : McpPost(req)
  /\ Survives(<<clockVars, oauthVars, toolVars>>)
McpGate ==
  /\ \E i \in DOMAIN authInflight : \E answer \in GraphAnswers : McpGateAnswer(i, answer)
  /\ Survives(<<clockVars, oauthVars, toolVars>>)
McpInitialized ==
  /\ \E i \in DOMAIN mcpInflight : McpConnected(i)
  /\ UNCHANGED <<clockVars, oauthVars>>
  /\ UNCHANGED toolVars
McpToolResponse ==
  /\ \E i \in DOMAIN mcpInflight : McpToolAnswer(i)
  /\ UNCHANGED <<clockVars, oauthVars>>
  /\ UNCHANGED toolVars
McpGetRequest ==
  /\ \E sid \in McpSessionHeaders : \E h \in McpAuthHeaders :
       handleMCPGet(Request("GET", sid, h, NoBodyJson, Null))
  /\ Survives(<<clockVars, oauthVars, toolVars>>)
McpDeleteRequest ==
  /\ \E sid \in McpSessionHeaders : \E h \in McpAuthHeaders :
       handleMCPDelete(Request("DELETE", sid, h, NoBodyJson, Null))
  /\ UNCHANGED <<clockVars, oauthVars>>
  /\ UNCHANGED toolVars
McpSigint == SigintStart /\ UNCHANGED <<clockVars, oauthVars>>
  /\ UNCHANGED toolVars
McpSigintResume == SigintStep /\ UNCHANGED <<clockVars, oauthVars>>
  /\ UNCHANGED toolVars

NextMcp ==
  \/ McpPostRequest
  \/ McpGate
  \/ McpInitialized
  \/ McpToolResponse
  \/ McpGetRequest
  \/ McpDeleteRequest
  \/ McpSigint
  \/ McpSigintResume

SpecMcp == Init /\ [][NextMcp]_vars

\* What keeps Node's event loop alive: the listening socket of app.listen
\* (server.ts:242) and the interval of the cache sweep (auth.ts:41).  No line
\* closes the one or clears the other.
EventLoopHandles == {"listening socket", "cache sweep interval"}

\* The end of the process.  With a listener on SIGINT the signal no longer
\* ends the process; the handler has no process.exit, so the process ends
\* when nothing is left on the event loop.
ProcessExit ==
  /\ shutdown.completed
  /\ ~shutdown.running
  /\ ~shutdown.exited
  /\ EventLoopHandles = {}
  /\ shutdown' = [shutdown EXCEPT !.exited = TRUE, !.exitCode = 0]
  /\ UNCHANGED <<transports, requestContextStore, tports, mcpInflight, issuedLog, lastMcp,
                 events>>
  /\ UNCHANGED <<clockVars, oauthVars, authVars, toolVars>>

\* The protocol endpoint with the event loop doing its part: a suspended
\* SIGINT handler is resumed, and a process with nothing left to wait for ends.
SpecMcpLive ==
  /\ Init
  /\ [][NextMcp]_vars
  /\ WF_vars(McpSigintResume)
  /\ WF_vars(ProcessExit)

\* ------------------------------------------------------------ SpecTools
\* The tools, one invocation at a time.
ToolSession == "s1"
ToolContexts ==
  {EmptyMap} \cup {MapSet(EmptyMap, ToolSession, [authorization |-> h]) : h \in AuthHeaders}
Operands == (0 - MaxOperand)..MaxOperand
JsonValues ==
  {JsonNumber(n) : n \in Operands}
  \cup {JsonString(s) : s \in {"0", "1abc", "abc"}} \cup {JsonNull, JsonAbsent}
Operations == {"add", "subtract", "multiply", "divide", "modulo", Null}
CalcInputs == {CalcArgs(op, a, b) : op \in Operations, a \in JsonValues, b \in JsonValues}

ToolsGetUserInfo ==
  /\ \E ctx \in ToolContexts : GetUserInfoStart(ctx, ToolSession)
  /\ UNCHANGED <<clockVars, events, oauthVars, authVars, mcpVars>>
ToolsGraphAnswer ==
  /\ \E answer \in GraphAnswers : GetUserInfoAnswer(answer)
  /\ UNCHANGED <<clockVars, events, oauthVars, authVars, mcpVars>>
ToolsCalculateRest ==
  /\ \E body \in CalcInputs : CalculateRest(body)
  /\ UNCHANGED <<clockVars, events, oauthVars, authVars, mcpVars>>
ToolsCalculateMcp ==
  /\ \E args \in CalcInputs : CalculateMcp(args)
  /\ UNCHANGED <<clockVars, events, oauthVars, authVars, mcpVars>>

NextTools ==
  \/ ToolsGetUserInfo
  \/ ToolsGraphAnswer
  \/ ToolsCalculateRest
  \/ ToolsCalculateMcp

SpecTools == Init /\ [][NextTools]_vars

\* ------------------------------------------------------ claims on oauth.ts
\* C1: every verifier stored by storeCodeVerifier is returned by
\* getAndRemoveCodeVerifier to at most one caller, and a verifier that has
\* been returned is no longer in the store: a later redeem of that state finds
\* nothing until /authorize stores a new verifier under it.
PkceRedeemOneTime ==
  /\ \A v \in DOMAIN redeemCount : redeemCount[v] <= 1
  /\ \A s \in DOMAIN pkceStore : pkceStore[s].codeVerifier \notin DOMAIN redeemCount

\* C1 witness: a verifier was redeemed by one /callback, a second /callback
\* for the same state was answered with the PKCE failure page while the first
\* is still awaiting the token endpoint.
PkceRedeemOneTimeWitness ==
  /\ lastCallback.page = "pkce_failed"
  /\ \E i \in DOMAIN cbInflight :
       /\ cbInflight[i] # Idle
       /\ cbInflight[i].fromStore
       /\ cbInflight[i].state = lastCallback.state
       /\ redeemCount[cbInflight[i].code_verifier] = 1

\* The age of the entry stored under state st.
PkceAge(st) == now - (pkceStore[st].expiresAt - PkceTtlMs)

\* C17: a /callback without code_verifier whose state names a PKCE entry
\* older than 10 minutes gets the PKCE failure page: the entry is removed,
\* no verifier is redeemed and no token exchange is started.
ExpiredVerifierNeverRedeemed ==
  [][\A code \in Codes : \A st \in DOMAIN pkceStore :
       (CallbackStart(code, st, Null, Null) /\ PkceAge(st) > PkceTtlMs) =>
         /\ lastCallback' = CallbackResponse(400, "pkce_failed", st)
         /\ st \notin DOMAIN pkceStore'
         /\ cbInflight' = cbInflight
         /\ redeemCount' = redeemCount]_vars

\* C17 witness: the only verifier ever stored was asked for after more than
\* 10 minutes, never having been read, and the PKCE failure page came back.
ExpiredVerifierNeverRedeemedWitness ==
  /\ lastCallback.page = "pkce_failed"
  /\ lastCallback.state = lastAuthorize.state
  /\ lastAuthorize.stored # Null
  /\ nextVerifier = 1
  /\ now > PkceTtlMs
  /\ redeemCount = EmptyMap
  /\ pkceStore = EmptyMap

\* C18: /authorize redirects with a state (the caller's, or a generated one)
\* and a code_challenge.  With code_challenge and code_challenge_method both
\* supplied they are passed through and the PKCE store is unchanged;
\* otherwise the method is S256, the challenge is that of a newly minted
\* verifier, and a redeem of the state right afterwards returns the verifier
\* whose challenge was sent.
AuthorizeSendsMatchingChallenge ==
  [][\A st \in ClientStates \cup {Null} : \A cc \in ClientChallenges \cup {Null} :
     \A ccm \in {"S256", Null} :
       Authorize(st, cc, ccm) =>
         LET sent == lastAuthorize'
         IN /\ sent.state # Null
            /\ st # Null => sent.state = st
            /\ st = Null => sent.state \notin ClientStates
            /\ sent.code_challenge # Null
            /\ IF cc # Null /\ ccm # Null
                 THEN /\ sent.code_challenge = cc
                      /\ sent.code_challenge_method = ccm
                      /\ pkceStore' = pkceStore
                 ELSE LET r == getAndRemoveCodeVerifier(pkceStore', sent.state, now)
                      IN /\ sent.code_challenge_method = "S256"
                         /\ r.result # Null
                         /\ generateCodeChallenge(r.result) = sent.code_challenge
                         /\ r.result \notin {pkceStore[k].codeVerifier : k \in DOMAIN pkceStore}
                         /\ r.result \notin DOMAIN redeemCount]_vars

\* C18 witness: /authorize?state=abc123 without a challenge stored a minted
\* verifier under abc123.
AuthorizeSendsMatchingChallengeWitness ==
  /\ lastAuthorize.state = "abc123"
  /\ lastAuthorize.stored # Null
  /\ lastAuthorize.code_challenge = generateCodeChallenge(lastAuthorize.stored)
  /\ "abc123" \in DOMAIN pkceStore
  /\ pkceStore["abc123"].codeVerifier = lastAuthorize.stored

\* C19: when the last finished /callback redeemed the stored verifier of its
\* state and wrote an Access Token Record, and /authorize has minted no
\* verifier since, the same callback again gets the PKCE failure page: no
\* exchange is started and the record table is unchanged.
RepeatedCallbackFails ==
  [][\A code \in Codes :
       (/\ lastCallback.page = "success"
        /\ lastCallback.redeemed # Null
        /\ nextVerifier > 0
        /\ lastCallback.redeemed = generateCodeVerifier(nextVerifier - 1)
        /\ CallbackStart(code, lastCallback.state, Null, Null)) =>
         /\ lastCallback' = CallbackResponse(400, "pkce_failed", lastCallback.state)
         /\ cbInflight' = cbInflight
         /\ tokenStore' = tokenStore]_vars

\* C19 witness: one verifier was minted and redeemed, one record exists, and
\* the repeated callback was answered with the PKCE failure page.
RepeatedCallbackFailsWitness ==
  /\ lastCallback.page = "pkce_failed"
  /\ lastCallback.state = lastAuthorize.state
  /\ nextVerifier = 1
  /\ lastAuthorize.stored \in DOMAIN redeemCount
  /\ Cardinality(DOMAIN tokenStore) = 1
  /\ \A i \in DOMAIN cbInflight : cbInflight[i] = Idle

\* C20: the record table gains an entry, or an entry of it gets another
\* value, only in the resumption of a /callback whose token exchange returned
\* an access token, by the record of that token (getTokenFromStore only ever
\* removes a record); every /callback that ends otherwise ends with an error
\* status and leaves the table as it was.
RecordOnlyOnSuccessfulExchange ==
  [][/\ (\E k \in DOMAIN tokenStore' :
            k \notin DOMAIN tokenStore \/ tokenStore'[k] # tokenStore[k]) =>
          \E i \in DOMAIN cbInflight : \E at \in AccessTokens : \E sessionId \in RecordIds :
            /\ cbInflight[i] # Idle
            /\ CallbackFinish(i, "token", at, sessionId)
            /\ sessionId \in DOMAIN tokenStore'
            /\ tokenStore'[sessionId].accessToken = at
            /\ lastCallback'.status = 200
            /\ lastCallback'.record = sessionId
     /\ (lastCallback' # lastCallback /\ lastCallback'.page # "success") =>
          /\ tokenStore' = tokenStore
          /\ lastCallback'.status \in {400, 500}
          /\ lastCallback'.record = Null]_vars

\* C20 witness: a token exchange failed, the error page was rendered and the
\* table is empty.
RecordOnlyOnSuccessfulExchangeWitness ==
  /\ lastCallback.page = "exchange_failed"
  /\ lastCallback.exchanged
  /\ tokenStore = EmptyMap

\* The query parameters a /callback may carry besides `error`.
CallbackCodes == Codes \cup {Null}
CallbackStates == ClientStates \cup {GeneratedState(0), Null}
CallbackVerifiers == ClientVerifiers \cup {Null}

\* C21: a /callback that carries an `error` parameter is answered with the
\* 400 error page and stops there, whatever its other parameters are: it
\* redeems no verifier, starts no token exchange and writes no record.
ErrorParameterStopsCallback ==
  [][\A code \in CallbackCodes : \A st \in CallbackStates : \A cv \in CallbackVerifiers :
       CallbackStart(code, st, "access_denied", cv) =>
         /\ lastCallback' = CallbackResponse(400, "authorization_failed", st)
         /\ pkceStore' = pkceStore
         /\ cbInflight' = cbInflight
         /\ redeemCount' = redeemCount
         /\ tokenStore' = tokenStore]_vars

\* C21 witness: the error page was rendered for a state whose verifier is
\* still in the store, unredeemed, and no exchange is under way.
ErrorParameterStopsCallbackWitness ==
  /\ lastCallback.page = "authorization_failed"
  /\ lastCallback.state \in DOMAIN pkceStore
  /\ pkceStore[lastCallback.state].codeVerifier \notin DOMAIN redeemCount
  /\ \A i \in DOMAIN cbInflight : cbInflight[i] = Idle

\* C22: a /callback without a `state` parameter is answered 400 and goes no
\* further, also when it carries its own code_verifier: the verifier store,
\* the exchanges under way and the token table stay as they were.
MissingStateStopsCallback ==
  [][\A code \in CallbackCodes : \A err \in {"access_denied", Null} :
     \A cv \in CallbackVerifiers :
       CallbackStart(code, Null, err, cv) =>
         /\ lastCallback'.status = 400
         /\ ~lastCallback'.exchanged
         /\ lastCallback'.redeemed = Null
         /\ lastCallback'.record = Null
         /\ pkceStore' = pkceStore
         /\ cbInflight' = cbInflight
         /\ redeemCount' = redeemCount
         /\ tokenStore' = tokenStore]_vars

\* C22 witness: the missing-state answer was given while a verifier is in
\* the store and nothing is being exchanged.
MissingStateStopsCallbackWitness ==
  /\ lastCallback.page = "missing_state"
  /\ lastCallback.state = Null
  /\ pkceStore # EmptyMap
  /\ \A i \in DOMAIN cbInflight : cbInflight[i] = Idle

\* The parameter names of a public client's token request.
PublicClientParams == {"client_id", "code", "redirect_uri", "grant_type", "code_verifier"}

\* C23: every request sent to the token endpoint carries exactly client_id,
\* code, redirect_uri, grant_type and code_verifier, the verifier being the
\* one this /callback settled on; it carries no client secret.
TokenRequestHasNoSecret ==
  \A i \in DOMAIN cbInflight :
    cbInflight[i] # Idle =>
      /\ DOMAIN cbInflight[i].request = PublicClientParams
      /\ "client_secret" \notin DOMAIN cbInflight[i].request
      /\ cbInflight[i].request.grant_type = "authorization_code"
      /\ cbInflight[i].request.code = cbInflight[i].code
      /\ cbInflight[i].request.code_verifier = cbInflight[i].code_verifier

\* C23 witness: two token requests are under way, one with the verifier the
\* server stored and one with the verifier the client sent.
TokenRequestHasNoSecretWitness ==
  /\ \E i \in DOMAIN cbInflight : cbInflight[i] # Idle /\ cbInflight[i].fromStore
  /\ \E i \in DOMAIN cbInflight : cbInflight[i] # Idle /\ ~cbInflight[i].fromStore

\* C27: the token exchange of /callback is bounded by a timeout, so every
\* /callback that waits for the token endpoint is answered in the end.
EveryCallbackIsAnswered ==
  \A i \in 1..MaxInflight : (cbInflight[i] # Idle) ~> (cbInflight[i] = Idle)

\* ------------------------------------------------------ claims on the tools
\* C29: get-user-info always ends in a tool result and never in a throw; when
\* the request context holds no bearer token, when the authority answers 401
\* at call time, and when the call to the authority fails otherwise, the
\* result's content names the error; on the authority's 200 it holds the
\* profile.
GetUserInfoNeverThrows ==
  (toolRun.tool = "get-user-info" /\ toolRun.phase = "done") =>
    /\ toolRun.outcome.kind = "result"
    /\ ~startsWithBearer(toolRun.header) => toolRun.outcome.error = NoAccessToken
    /\ toolRun.answer = "401" => toolRun.outcome.error = ReAuthenticate
    /\ toolRun.answer \in {"500", "timeout"} => toolRun.outcome.error = GraphApiError
    /\ toolRun.answer = "ok" =>
         /\ toolRun.outcome.error = Null
         /\ toolRun.outcome.text = GraphProfile(substring7(toolRun.header))

\* C29 witness: the gate had let the token through and the authority answers
\* 401 when the tool calls it: the tool has returned a result that asks to
\* authenticate again.
GetUserInfoNeverThrowsWitness ==
  /\ toolRun.tool = "get-user-info"
  /\ toolRun.phase = "done"
  /\ toolRun.header = Bearer("tGood")
  /\ toolRun.answer = "401"
  /\ toolRun.outcome.kind = "result"
  /\ toolRun.outcome.error = ReAuthenticate

\* The calls of calculate with numbers for a and b and a supported operation.
NumericCall ==
  /\ toolRun.tool = "calculate"
  /\ toolRun.phase = "done"
  /\ toolRun.args.operation \in {"add", "subtract", "multiply", "divide"}
  /\ toolRun.args.a.type = "number"
  /\ toolRun.args.b.type = "number"
DivideByZero == toolRun.args.operation = "divide" /\ toolRun.args.b.n = 0

\* a (operation) b as a fraction.
Arithmetic(operation, a, b) ==
  CASE operation = "add"      -> Fraction(a + b, 1)
    [] operation = "subtract" -> Fraction(a - b, 1)
    [] operation = "multiply" -> Fraction(a * b, 1)
    [] operation = "divide"   -> Fraction(a, b)

\* C30: calculate with "divide" and b = 0 ends in a structured error, 400
\* with an error body on the REST endpoint and a tool error on the protocol
\* endpoint, with no value; every other call with a supported operation and
\* numbers a, b ends in the arithmetic result.
DivideByZeroIsAnError ==
  NumericCall =>
    IF DivideByZero
      THEN /\ toolRun.outcome.value = NoValue
           /\ toolRun.outcome.error # Null
           /\ toolRun.outcome.isError
           /\ toolRun.endpoint = "rest" =>
                toolRun.outcome.kind = "http" /\ toolRun.outcome.status = 400
           /\ toolRun.endpoint = "mcp" => toolRun.outcome.kind = "result"
      ELSE /\ toolRun.outcome.error = Null
           /\ ~toolRun.outcome.isError
           /\ toolRun.outcome.kind = (IF toolRun.endpoint = "rest" THEN "http" ELSE "result")
           /\ toolRun.endpoint = "rest" => toolRun.outcome.status = 200
           /\ LET r == Arithmetic(toolRun.args.operation, toolRun.args.a.n, toolRun.args.b.n)
              IN /\ toolRun.outcome.value.den # 0
                 /\ toolRun.outcome.value.num * r.den = r.num * toolRun.outcome.value.den

\* C30 witness: a division of a negative number by zero on the REST endpoint
\* was answered 400.
DivideByZeroIsAnErrorWitness ==
  /\ NumericCall
  /\ DivideByZero
  /\ toolRun.args.a.n < 0
  /\ toolRun.endpoint = "rest"
  /\ toolRun.outcome.status = 400

\* --------------------------------------------- claims on http-transport.ts
\* A payload with a tools/call or tools/list message in it.
CarriesToolsMessage(body) == Methods(body) \cap {"tools/call", "tools/list"} # {}

\* C2: a POST whose payload carries a tools/call or tools/list message, as
\* the single message or inside a batch, is handed to a transport only after
\* requireAuth accepted a bearer token on that request.
ToolsMessagesAreGated ==
  /\ (lastMcp.req.method = "POST" /\ CarriesToolsMessage(lastMcp.req.body)) =>
       (lastMcp.dispatched # 0 => lastMcp.gate = "accepted")
  /\ \A i \in DOMAIN mcpInflight :
       (mcpInflight[i] # Idle /\ mcpInflight[i].pc = "tool") =>
         mcpInflight[i].gate = "accepted"

\* A request that names a session the registry does not hold, or names none
\* and is not an initialize message.
NamesNoSession(req) ==
  \/ req.sessionId # Null /\ req.sessionId \notin DOMAIN transports
  \/ req.sessionId = Null /\ ~(req.method = "POST" /\ isInitializeRequest(req.body))

SessionStoresUnchanged ==
  /\ transports' = transports
  /\ requestContextStore' = requestContextStore
  /\ tports' = tports
  /\ mcpInflight' = mcpInflight

McpRequests ==
  {Request("POST", sid, h, body, Null) :
     sid \in McpSessionHeaders, h \in McpAuthHeaders, body \in McpBodies}
  \cup {Request(m, sid, h, NoBodyJson, Null) :
          m \in {"GET", "DELETE"}, sid \in McpSessionHeaders, h \in McpAuthHeaders}

\* The step is the session router answering req: a POST that the gate let
\* through at once or after the authority's answer, a GET or a DELETE.
RouterAnswers(req) ==
  \/ /\ req.method = "POST"
     /\ McpPost(req)
     /\ mcpAuthMiddleware(req, tokenCache, now).run.kind = "next"
  \/ /\ req.method = "POST"
     /\ \E i \in DOMAIN authInflight : \E answer \in GraphAnswers :
          /\ authInflight[i] # Idle
          /\ authInflight[i].req = req
          /\ McpGateAnswer(i, answer)
          /\ answer = "ok"
  \/ req.method = "GET" /\ handleMCPGet(req)
  \/ req.method = "DELETE" /\ handleMCPDelete(req)

\* C3: a request that gets as far as the session router and names an unknown
\* session, or none without being an initialize message, is answered 400 and
\* leaves the registry and the request-context store as they were.
UnknownSessionRejectedUnchanged ==
  [][\A req \in McpRequests :
       (NamesNoSession(req) /\ RouterAnswers(req)) =>
         /\ lastMcp'.req = req
         /\ lastMcp'.status = 400
         /\ lastMcp'.dispatched = 0
         /\ lastMcp'.created = 0
         /\ SessionStoresUnchanged]_vars

\* C4: every key of the registry maps to one handle, the handle that the
\* initialize request which minted the key created and no other key maps to;
\* no identifier was minted twice, so a new session never takes the key of a
\* live or closed one.
OneHandlePerFreshSession ==
  /\ \A i, j \in DOMAIN issuedLog :
       i # j => issuedLog[i][1] # issuedLog[j][1] /\ issuedLog[i][2] # issuedLog[j][2]
  /\ \A sid \in DOMAIN transports :
       /\ <<sid, transports[sid]>> \in {issuedLog[i] : i \in DOMAIN issuedLog}
       /\ tports[transports[sid]].sessionId = sid
       /\ ~tports[transports[sid]].closed
  /\ \A t \in DOMAIN tports :
       tports[t].sessionId # Null =>
         <<tports[t].sessionId, t>> \in {issuedLog[i] : i \in DOMAIN issuedLog}

\* C4 witness: a session was closed and a later initialize registered a new
\* handle under another identifier.
OneHandlePerFreshSessionWitness ==
  /\ Len(issuedLog) >= 2
  /\ issuedLog[1][1] \in ClosedSids
  /\ issuedLog[2][1] \in ActiveSids
  /\ lastMcp.created = issuedLog[2][2]

\* C5: a POST whose handler runs while the session it names is Active, and
\* which the gate does not stop, is dispatched to the handle created by the
\* initialize request that minted the identifier; no handle is created for
\* it.  The same holds for a POST still waiting for its tool result.
ActiveSessionKeepsItsHandle ==
  /\ (lastMcp.req.method = "POST" /\ lastMcp.wasActive) =>
       /\ lastMcp.created = 0
       /\ lastMcp.gate \in {"none", "accepted"} =>
            /\ lastMcp.dispatched # 0
            /\ <<lastMcp.req.sessionId, lastMcp.dispatched>>
                 \in {issuedLog[i] : i \in DOMAIN issuedLog}
       /\ lastMcp.gate \notin {"none", "accepted"} => lastMcp.dispatched = 0
  /\ \A i \in DOMAIN mcpInflight :
       (mcpInflight[i] # Idle /\ mcpInflight[i].pc = "tool") =>
         /\ mcpInflight[i].served.wasActive
         /\ mcpInflight[i].served.created = 0
         /\ mcpInflight[i].served.dispatched = mcpInflight[i].transport
         /\ <<mcpInflight[i].req.sessionId, mcpInflight[i].transport>>
              \in {issuedLog[j] : j \in DOMAIN issuedLog}

\* C5 witness: with two sessions registered, a POST naming the second was
\* dispatched to the second handle.
ActiveSessionKeepsItsHandleWitness ==
  /\ Len(issuedLog) >= 2
  /\ lastMcp.req.method = "POST"
  /\ lastMcp.wasActive
  /\ lastMcp.req.sessionId = issuedLog[2][1]
  /\ lastMcp.dispatched = issuedLog[2][2]
  /\ issuedLog[1][1] \in ActiveSids

ClosedSessionsAreGone ==
  \A sid \in ClosedSids :
    /\ sid \notin DOMAIN transports
    /\ sid \notin DOMAIN requestContextStore
    /\ sid \notin ActiveSids

\* C6 as stated: a closed session's entries are gone for good and every later
\* POST, GET or DELETE bearing its identifier is answered 400.
ClosedAlwaysAnswered400 ==
  /\ ClosedSessionsAreGone
  /\ lastMcp.wasClosed => lastMcp.status = 400 /\ lastMcp.dispatched = 0

\* C6: a closed session's registry entry and request-context entry are gone
\* in every later state, so it is never Active again; a later request bearing
\* its identifier reaches no handle: a GET, a DELETE and a POST that
\* mcpAuthMiddleware lets through are answered 400, a tools/call or
\* tools/list POST that requireAuth rejects is answered with requireAuth's
\* 401, or with nothing when requireAuth fails to write its 401 and the
\* process ends.
ClosedIsTerminal ==
  /\ ClosedSessionsAreGone
  /\ lastMcp.wasClosed =>
       /\ lastMcp.dispatched = 0
       /\ lastMcp.created = 0
       /\ lastMcp.gate \in {"none", "accepted", "rejected", "threw"}
       /\ lastMcp.gate \in {"none", "accepted"} => lastMcp.status = 400
       /\ lastMcp.gate = "rejected" => lastMcp.status = 401
       /\ lastMcp.gate = "threw" => lastMcp.status = 0 /\ shutdown.exited
  /\ \A i \in DOMAIN mcpInflight :
       (mcpInflight[i] # Idle /\ mcpInflight[i].pc = "tool") =>
         ~mcpInflight[i].served.wasClosed

\* C6 witness: a tools/call POST with an accepted token, bearing the
\* identifier of a session closed earlier, was answered 400.
ClosedIsTerminalWitness ==
  /\ lastMcp.wasClosed
  /\ lastMcp.req.method = "POST"
  /\ lastMcp.gate = "accepted"
  /\ lastMcp.status = 400

\* C7: requireAuth is invoked for no initialize request, and an initialize
\* POST without a session header is answered 200 by a newly created handle
\* registered under the identifier minted for it, whatever its Authorization
\* header.
InitializeIsNeverGated ==
  /\ (lastMcp.req.method = "POST" /\ isInitializeRequest(lastMcp.req.body)) =>
       /\ lastMcp.gate = "none"
       /\ lastMcp.authResponse = NoResponse
       /\ lastMcp.req.sessionId = Null =>
            /\ lastMcp.status = 200
            /\ lastMcp.created # 0
            /\ lastMcp.dispatched = lastMcp.created
            /\ \E i \in DOMAIN issuedLog : issuedLog[i][2] = lastMcp.created
  /\ \A i \in DOMAIN authInflight :
       authInflight[i] # Idle => ~isInitializeRequest(authInflight[i].req.body)
  /\ \A i \in DOMAIN mcpInflight :
       (mcpInflight[i] # Idle /\ isInitializeRequest(mcpInflight[i].req.body)) =>
         /\ mcpInflight[i].pc = "connect"
         /\ mcpInflight[i].gate = "none"

\* C7 witness: an initialize POST with a header that is no bearer token
\* created a session and was answered 200.
InitializeIsNeverGatedWitness ==
  /\ lastMcp.req.method = "POST"
  /\ isInitializeRequest(lastMcp.req.body)
  /\ lastMcp.req.sessionId = Null
  /\ lastMcp.req.authorization = BasicHeader
  /\ lastMcp.status = 200
  /\ lastMcp.created # 0
  /\ lastMcp.created \in {transports[sid] : sid \in DOMAIN transports}

\* C24: a GET or a DELETE that names no session, or a session that is not
\* Active when it arrives, is answered 400 and reaches no transport handle.
StreamAndCloseNeedActiveSession ==
  (lastMcp.req.method \in {"GET", "DELETE"} /\ ~lastMcp.wasActive) =>
    /\ lastMcp.status = 400
    /\ lastMcp.dispatched = 0

\* C25: when the SIGINT handler has finished, every session that was in the
\* registry when the signal arrived and whose close did not throw is Closed
\* and out of the registry; a close that threw did not end the loop, so each
\* of those sessions is either closed and removed or among the failed ones.
\* (A handler cut short by the end of the process has not finished.)
SigintClosesEveryActiveHandle ==
  (~shutdown.running /\ ~shutdown.exited) =>
    \A sid \in shutdown.atSignal :
      \/ sid \in shutdown.failed
      \/ /\ sid \notin DOMAIN transports
         /\ sid \in ClosedSids
         /\ sid \notin ActiveSids

\* C25 witness: the handler has finished on two sessions; the close of one
\* threw and that session is still registered, the other one is closed and
\* removed.
SigintClosesEveryActiveHandleWitness ==
  /\ ~shutdown.running
  /\ Cardinality(shutdown.atSignal) = 2
  /\ \E sid \in shutdown.failed : sid \in ActiveSids
  /\ \E sid \in shutdown.atSignal \ shutdown.failed :
       sid \in ClosedSids /\ sid \notin DOMAIN transports

\* C26: a message of a session that arrived while an earlier message of the
\* same session was still suspended in requireAuth is not handed to the
\* transport ahead of it: when the later, ungated one has been handed over
\* and served, the earlier one is not handed over after it.
SessionOrderPreserved ==
  [][\A i \in DOMAIN authInflight : \A answer \in GraphAnswers :
       (/\ i \in lastMcp.waiting
        /\ lastMcp.gate = "none"
        /\ lastMcp.dispatched \in DOMAIN tports
        /\ lastMcp.status = 200
        /\ lastMcp.wasActive
        /\ authInflight[i] # Idle
        /\ authInflight[i].req.sessionId = lastMcp.req.sessionId
        /\ McpGateAnswer(i, answer))
       => /\ lastMcp' # lastMcp => lastMcp'.dispatched = 0
          /\ \A j \in DOMAIN mcpInflight :
               mcpInflight'[j] # mcpInflight[j] => mcpInflight'[j].pc # "tool"]_vars

\* C28: a 500 answer of the protocol endpoint is opaque: its body carries
\* nothing of the error that was caught.
InternalErrorsAreOpaque ==
  lastMcp.status = 500 => lastMcp.data = Null

\* ------------------------------------------------------- claims on auth.ts
Rejected401(run) ==
  /\ run.kind = "unauthorized"
  /\ run.user = NoUser
  /\ run.response.sent
  /\ run.response.status = 401
  /\ run.response.wwwAuthenticate.scheme = "Bearer"
  /\ run.response.wwwAuthenticate.realm = ServerUrl
  /\ run.response.wwwAuthenticate.authorization_uri = AuthorizeUrl
  /\ run.response.body.error = "unauthorized"
  /\ run.response.body.message # Null
  /\ run.response.body.authorization_uri # Null

PassedOn(run) ==
  /\ run.kind = "next"
  /\ run.user # NoUser
  /\ ~run.response.sent

\* C8: every finished run of requireAuth either called next() with an
\* identity attached, or sent a 401 with the Bearer challenge (realm,
\* authorization endpoint) and the JSON body {error, message,
\* authorization_uri}: exactly one of the two.
RequireAuthNextOr401 ==
  lastAuth.mw = "requireAuth" =>
    /\ PassedOn(lastAuth.run) \/ Rejected401(lastAuth.run)
    /\ ~(PassedOn(lastAuth.run) /\ Rejected401(lastAuth.run))

CredentialsMissing(h) == ~h.present \/ (h.prefix = "" /\ h.rest = "")
CredentialsMalformed(h) == ~CredentialsMissing(h) /\ ~startsWithBearer(h)

\* C9: requireAuth rejects a request without an Authorization header (absent
\* or empty) as missing credentials and one whose header does not start with
\* "Bearer " as malformed, in both cases without having decoded a token, read
\* the cache or called the authority; neither requireAuth nor optionalAuth
\* attaches an identity to such a request, whatever its query string holds.
HeaderChecksComeFirst ==
  LET h == lastAuth.req.authorization
      run == lastAuth.run
  IN /\ (lastAuth.mw = "requireAuth" /\ CredentialsMissing(h)) =>
          /\ Rejected401(run)
          /\ run.response.body.message = "No Authorization header provided"
          /\ run.trace = {}
     /\ (lastAuth.mw = "requireAuth" /\ CredentialsMalformed(h)) =>
          /\ Rejected401(run)
          /\ run.response.body.message =
               "Invalid Authorization header format. Expected \"Bearer <token>\""
          /\ run.trace = {}
     /\ (lastAuth.mw # Null /\ (CredentialsMissing(h) \/ CredentialsMalformed(h))) =>
          /\ run.user = NoUser
          /\ run.trace = {}

\* C9 witness: a request whose Authorization header is a bare token (no
\* "Bearer " prefix) was rejected by requireAuth while the cache held an
\* entry for that very token.
HeaderChecksComeFirstWitness ==
  /\ lastAuth.mw = "requireAuth"
  /\ lastAuth.req.authorization = RawTokenHeader
  /\ "tGood" \in DOMAIN tokenCache
  /\ lastAuth.run.response.status = 401

\* C10: a finished run of requireAuth or optionalAuth carries an identity only
\* if, in that run, the token's issuer was one of the trusted issuers, the
\* token was not expired when checked, and the profile came from a cache entry
\* still valid at that time or from a 200 of the authority; a suspended run
\* carries none.
IdentityOnlyWhenResolved ==
  LET run == lastAuth.run
      token == substring7(lastAuth.req.authorization)
      c == Claims(token)
  IN /\ run.user # NoUser =>
          /\ startsWithBearer(lastAuth.req.authorization)
          /\ c.decodable
          /\ c.iss \in validIssuers
          /\ ~c.hasExp \/ c.exp >= (run.checkedAt \div 1000)
          /\ run.user.iss = c.iss
          /\ \/ /\ run.entry # NoEntry
                /\ run.entry.validUntil > run.checkedAt
                /\ run.user.graph = run.entry.user
                /\ run.answer = Null
             \/ /\ run.answer = "ok"
                /\ run.user.graph = GraphProfile(token)
     /\ \A i \in DOMAIN authInflight :
          authInflight[i] # Idle => authInflight[i].run.user = NoUser

\* C10 witness: the authority answered 401 for a structurally valid token and
\* the run ended without an identity.
IdentityOnlyWhenResolvedWitness ==
  /\ lastAuth.mw \in {"requireAuth", "optionalAuth"}
  /\ lastAuth.run.structure.ok
  /\ lastAuth.run.answer = "401"
  /\ lastAuth.run.user = NoUser

\* The token a request bears, and whether its expiry lies before time t (ms).
BearerToken(req) == substring7(req.authorization)
BearsToken(req) == startsWithBearer(req.authorization) /\ BearerToken(req) # ""
ExpiryPassed(c, t) == c.hasExp /\ c.exp * 1000 < t
FailsStructure(req, t) ==
  LET c == Claims(BearerToken(req))
  IN BearsToken(req) /\ c.decodable /\ (c.iss \notin validIssuers \/ ExpiryPassed(c, t))

\* C11: requireAuth rejects every token whose issuer is not a trusted issuer
\* and every token whose expiry has passed, having decoded it but neither
\* read the cache nor called the authority; no run suspended in the call to
\* the authority bears such a token.
StructuralCheckRejectsFirst ==
  /\ (lastAuth.mw = "requireAuth" /\ FailsStructure(lastAuth.req, lastAuth.run.checkedAt)) =>
       /\ lastAuth.run.kind = "unauthorized"
       /\ lastAuth.run.user = NoUser
       /\ lastAuth.run.trace = {"decode"}
  /\ \A i \in DOMAIN authInflight :
       (authInflight[i] # Idle /\ authInflight[i].mw = "requireAuth") =>
         ~FailsStructure(authInflight[i].req, authInflight[i].run.checkedAt)

SkewSec == 60

\* C12: requireAuth does not reject as expired a token whose exp lies less
\* than 60 seconds before the time of the check, and rejects as expired one
\* whose exp lies more than 60 seconds before it.
ExpiryAllowsSkew ==
  LET c == Claims(BearerToken(lastAuth.req))
      t == lastAuth.run.checkedAt
  IN (lastAuth.mw = "requireAuth" /\ BearsToken(lastAuth.req) /\ c.decodable
        /\ c.iss \in validIssuers /\ c.hasExp /\ c.exp # 0) =>
       /\ (c.exp + SkewSec) * 1000 > t =>
            lastAuth.run.response.body.message # "Token has expired"
       /\ (c.exp + SkewSec) * 1000 < t =>
            lastAuth.run.response.body.message = "Token has expired"

Middlewares == {"requireAuth", "optionalAuth"}

\* The step is the run in slot i resumed by the authority's answer.
Resumed(i, answer) == authInflight[i] # Idle /\ AuthGraphAnswer(i, answer)

\* C13: a successful profile resolution caches the profile for 5 minutes from
\* that moment, the entry stays until then as long as the process lives (the
\* cache is memory of the process), and a resolution of the same
\* token during that time returns the cached profile without a call to the
\* authority.
ResolutionIdempotentWithinTtl ==
  [][/\ \A i \in DOMAIN authInflight :
          Resumed(i, "ok") =>
            LET token == BearerToken(authInflight[i].req)
            IN /\ token \in DOMAIN tokenCache'
               /\ tokenCache'[token] =
                    [user |-> GraphProfile(token), validUntil |-> now + CacheTtlMs]
     /\ \A token \in DOMAIN tokenCache :
          (now' < tokenCache[token].validUntil /\ ~shutdown'.exited) =>
            token \in DOMAIN tokenCache'
     /\ \A mw \in Middlewares : \A req \in AuthRequests :
          (/\ BearsToken(req)
           /\ BearerToken(req) \in DOMAIN tokenCache
           /\ now < tokenCache[BearerToken(req)].validUntil
           /\ validateTokenStructure(BearerToken(req), now).ok
           /\ AuthArrive(mw, req)) =>
            /\ lastAuth'.req = req
            /\ lastAuth'.run.kind = "next"
            /\ lastAuth'.run.trace = {"decode", "cache"}
            /\ lastAuth'.run.user.graph = tokenCache[BearerToken(req)].user
            /\ authInflight' = authInflight
            /\ tokenCache' = tokenCache]_vars

\* C13 witness: a token resolved earlier was presented again one second
\* later and served from the cache, with no run suspended.
ResolutionIdempotentWithinTtlWitness ==
  /\ lastAuth.run.entry # NoEntry
  /\ lastAuth.run.trace = {"decode", "cache"}
  /\ lastAuth.run.checkedAt > 0
  /\ lastAuth.run.checkedAt < lastAuth.run.entry.validUntil
  /\ \A i \in DOMAIN authInflight : authInflight[i] = Idle

\* C14: the token cache changes only when a call to the authority for a
\* token returns 200, and then only in that token's entry, or when the sweep
\* drops expired entries; a 401, another upstream failure or a timeout leaves
\* the cache as it was, and every entry holds the profile of its own token.
CacheOnlyAfterSuccess ==
  [][/\ \A token \in DOMAIN tokenCache' :
          (token \notin DOMAIN tokenCache \/ tokenCache'[token] # tokenCache[token]) =>
            \E i \in DOMAIN authInflight :
              /\ Resumed(i, "ok")
              /\ BearerToken(authInflight[i].req) = token
              /\ token \notin revoked
     /\ \A i \in DOMAIN authInflight : \A answer \in GraphAnswers \ {"ok"} :
          Resumed(i, answer) => tokenCache' = tokenCache
     /\ \A token \in DOMAIN tokenCache' :
          tokenCache'[token].user = GraphProfile(token)]_vars

\* C14 witness: the authority failed for a token whose expired entry was
\* still in the cache, and the entry is still there.
CacheOnlyAfterSuccessWitness ==
  /\ lastAuth.run.answer \in {"401", "500", "timeout"}
  /\ BearerToken(lastAuth.req) \in DOMAIN tokenCache
  /\ tokenCache[BearerToken(lastAuth.req)].validUntil <= lastAuth.run.checkedAt

\* C15: requireAuth accepts no request that bears a token the authority
\* would reject at that moment.
RevokedTokenNeverAccepted ==
  [][\A req \in AuthRequests :
       (/\ BearsToken(req)
        /\ BearerToken(req) \in revoked
        /\ AuthArrive("requireAuth", req)) =>
         requireAuthEntry(req, tokenCache, now).kind # "next"]_vars

\* C16: after a 401 of the authority requireAuth rejects with the reason
\* "invalid or expired token"; after another failure or a timeout it rejects
\* with another reason and does not tell the client the token is invalid.
UpstreamFailureIsNotInvalidToken ==
  lastAuth.mw = "requireAuth" =>
    /\ lastAuth.run.answer = "401" =>
         lastAuth.run.response.body.message = "Token is invalid or expired"
    /\ lastAuth.run.answer \in {"500", "timeout"} =>
         /\ lastAuth.run.response.body.message # "Token is invalid or expired"
         /\ lastAuth.run.response.wwwAuthenticate.error # "invalid_token"

\* C31: a run that finds the token's cache entry at or past its validUntil
\* does not take the profile from the cache, swept or not: it calls the
\* authority or ends without a cached identity; and a sweep drops exactly the
\* entries whose validUntil lies before the moment of the sweep.
CacheExpiryAtReadTime ==
  [][/\ \A mw \in Middlewares : \A req \in AuthRequests :
          (/\ BearsToken(req)
           /\ BearerToken(req) \in DOMAIN tokenCache
           /\ tokenCache[BearerToken(req)].validUntil <= now
           /\ AuthArrive(mw, req)) =>
            \/ \E i \in DOMAIN authInflight :
                 /\ authInflight[i] = Idle
                 /\ authInflight'[i] # Idle
                 /\ authInflight'[i].req = req
                 /\ "graph" \in authInflight'[i].run.trace
                 /\ authInflight'[i].run.entry = NoEntry
            \/ /\ lastAuth'.req = req
               /\ lastAuth'.run.entry = NoEntry
               /\ lastAuth'.run.user.graph = Null
     /\ CacheSweep =>
          /\ \A token \in DOMAIN tokenCache :
               token \notin DOMAIN tokenCache' <=> tokenCache[token].validUntil < now
          /\ \A token \in DOMAIN tokenCache' :
               token \in DOMAIN tokenCache /\ tokenCache'[token] = tokenCache[token]]_vars

\* C31 witness: the entry of a token reached its validUntil and was not
\* swept; a request bearing the token is waiting for the authority.
CacheExpiryAtReadTimeWitness ==
  \E i \in DOMAIN authInflight :
    /\ authInflight[i] # Idle
    /\ BearerToken(authInflight[i].req) \in DOMAIN tokenCache
    /\ tokenCache[BearerToken(authInflight[i].req)].validUntil <= authInflight[i].run.checkedAt
    /\ authInflight[i].run.structure.ok

\* C32: a request to requireAuth that bears a token whose exp lies before
\* the current time, while the cache holds an entry of that token that was
\* made before the token's exp and is still valid, is rejected.
CacheNeverOutlivesExpiry ==
  [][\A req \in ResolveRequests :
       (/\ BearsToken(req)
        /\ Claims(BearerToken(req)).decodable
        /\ Claims(BearerToken(req)).hasExp
        /\ Claims(BearerToken(req)).exp * 1000 < now
        /\ BearerToken(req) \in DOMAIN tokenCache
        /\ tokenCache[BearerToken(req)].validUntil > now
        /\ tokenCache[BearerToken(req)].validUntil - CacheTtlMs
             < Claims(BearerToken(req)).exp * 1000
        /\ AuthArrive("requireAuth", req)) =>
         /\ lastAuth'.req = req
         /\ lastAuth'.run.kind = "unauthorized"]_vars

\* C33: no two calls to the authority for the same token are under way at
\* the same time: a request that arrives while the authority is being asked
\* about its token issues no second call.
OneOutboundCallPerToken ==
  \A i, j \in DOMAIN authInflight :
    (/\ i # j
     /\ authInflight[i] # Idle
     /\ authInflight[j] # Idle
     /\ "graph" \in authInflight[i].run.trace
     /\ "graph" \in authInflight[j].run.trace) =>
      BearerToken(authInflight[i].req) # BearerToken(authInflight[j].req)

\* C34: when a POST carrying a tools/call message is handed to the handle of
\* its session, the Authorization header that get-user-info reads from the
\* session's request context is the header of that very POST, whatever entry
\* other requests of the session had left there; and when the gate was
\* invoked for the POST, it is the bearer token the gate accepted.  (The
\* handle dispatches the tool callback in microtasks of the same turn of the
\* event loop in which line 215 stored the request; the callback reads the
\* context before its first await.)  The first conjunct is the call that
\* goes on to the authority and leaves the handler suspended, the second the
\* call answered within the turn.
ToolReadsInvokingRequest ==
  [][/\ \A i \in DOMAIN mcpInflight :
          (mcpInflight[i] = Idle /\ mcpInflight'[i] # Idle /\ mcpInflight'[i].pc = "tool") =>
            LET f == mcpInflight'[i]
            IN /\ f.authHeader = f.req.authorization
               /\ contextAuthorization(requestContextStore', f.req.sessionId)
                    = f.req.authorization
               /\ f.gate = "accepted" =>
                    /\ startsWithBearer(f.authHeader)
                    /\ validateTokenStructure(substring7(f.authHeader), now).ok
     /\ (/\ lastMcp' # lastMcp
         /\ mcpInflight' = mcpInflight
         /\ "tools/call" \in Methods(lastMcp'.req.body)
         /\ lastMcp'.status = 200
         /\ lastMcp'.dispatched # 0) =>
          /\ contextAuthorization(requestContextStore', lastMcp'.req.sessionId)
               = lastMcp'.req.authorization
          /\ lastMcp'.gate # "accepted"]_vars

\* C34 witness: a tools/call POST bearing a token the gate accepted has been
\* handed to its session's handle and get-user-info waits for the authority
\* with that token; the context entry the POST replaced had been left by
\* another request of the session with a header that is no bearer token.
ToolReadsInvokingRequestWitness ==
  \E i \in DOMAIN mcpInflight :
    /\ mcpInflight[i] # Idle
    /\ mcpInflight[i].pc = "tool"
    /\ mcpInflight[i].gate = "accepted"
    /\ mcpInflight[i].req.authorization = Bearer("tGood")
    /\ mcpInflight[i].authHeader = Bearer("tGood")
    /\ mcpInflight[i].served.replaced = BasicHeader
    /\ contextAuthorization(requestContextStore, mcpInflight[i].req.sessionId) = Bearer("tGood")

\* C35: every key of the request-context store is the identifier of an
\* Active session.
ContextKeysAreActiveSessions ==
  \A sid \in DOMAIN requestContextStore : sid \in ActiveSids

\* C36: once the SIGINT handler has run to its end, the registry holds no
\* Active handle.
NoActiveHandleAfterShutdown ==
  (shutdown.completed /\ ~shutdown.running) => ActiveSids = {}

\* C37: after the SIGINT handler has finished closing the handles, the
\* process exits in the end.
ShutdownTerminates ==
  (shutdown.completed /\ ~shutdown.running) ~> shutdown.exited

\* C38: the PKCE store holds one entry per state.  An /authorize without
\* PKCE parameters leaves under its state the verifier it minted, with an
\* expiry of ten minutes from then; when the state had an entry, that entry's
\* verifier is gone and the challenge of the new flow is not the challenge of
\* the replaced verifier.  A /callback that redeems from the store sends the
\* verifier the store holds for its state at that moment, whichever flow the
\* callback belongs to.
SecondAuthorizeReplacesFirst ==
  [][/\ nextVerifier' = nextVerifier + 1 =>
          LET st == lastAuthorize'.state
          IN /\ st \in DOMAIN pkceStore'
             /\ pkceStore'[st] = [codeVerifier |-> lastAuthorize'.stored,
                                  expiresAt |-> now + PkceTtlMs]
             /\ lastAuthorize'.code_challenge = generateCodeChallenge(pkceStore'[st].codeVerifier)
             /\ st \in DOMAIN pkceStore =>
                  /\ pkceStore'[st].codeVerifier # pkceStore[st].codeVerifier
                  /\ lastAuthorize'.code_challenge
                       # generateCodeChallenge(pkceStore[st].codeVerifier)
                  /\ \A k \in DOMAIN pkceStore' :
                       pkceStore'[k].codeVerifier # pkceStore[st].codeVerifier
                  /\ DOMAIN pkceStore' \subseteq DOMAIN pkceStore
     /\ \A i \in DOMAIN cbInflight :
          (cbInflight[i] = Idle /\ cbInflight'[i] # Idle /\ cbInflight'[i].fromStore) =>
            /\ cbInflight'[i].state \in DOMAIN pkceStore
            /\ cbInflight'[i].code_verifier = pkceStore[cbInflight'[i].state].codeVerifier
            /\ cbInflight'[i].request.code_verifier = cbInflight'[i].code_verifier
            /\ cbInflight'[i].state \notin DOMAIN pkceStore']_vars

\* C38 witness: two /authorize requests used the state abc123 within ten
\* minutes; the first flow's verifier was never redeemed, and a /callback for
\* abc123 is exchanging the code with the second flow's verifier.
SecondAuthorizeReplacesFirstWitness ==
  /\ nextVerifier = 2
  /\ nextState = 0
  /\ now < PkceTtlMs
  /\ generateCodeVerifier(0) \notin DOMAIN redeemCount
  /\ \E i \in DOMAIN cbInflight :
       /\ cbInflight[i] # Idle
       /\ cbInflight[i].fromStore
       /\ cbInflight[i].state \in ClientStates
       /\ cbInflight[i].code_verifier = generateCodeVerifier(1)

\* C39: the verifier is out of the store from the moment /callback has
\* redeemed it, while the token exchange is under way and after it, whatever
\* the token endpoint answers; the end of an exchange changes nothing in the
\* store; and a /callback without code_verifier whose state has no entry is
\* answered with the PKCE-failure page and starts no exchange.
VerifierGoneWhateverTheOutcome ==
  [][/\ \A i \in DOMAIN cbInflight :
          (cbInflight'[i] # Idle /\ cbInflight'[i].fromStore) =>
            \A k \in DOMAIN pkceStore' :
              pkceStore'[k].codeVerifier # cbInflight'[i].code_verifier
     /\ \A i \in DOMAIN cbInflight :
          (cbInflight[i] # Idle /\ cbInflight'[i] = Idle) =>
            /\ pkceStore' = pkceStore
            /\ cbInflight[i].fromStore =>
                 /\ lastCallback'.redeemed = cbInflight[i].code_verifier
                 /\ \A k \in DOMAIN pkceStore' :
                      pkceStore'[k].codeVerifier # cbInflight[i].code_verifier
     /\ \A code \in Codes : \A st \in CallbackStates \ {Null} :
          (st \notin DOMAIN pkceStore /\ CallbackStart(code, st, Null, Null)) =>
            /\ lastCallback' = CallbackResponse(400, "pkce_failed", st)
            /\ cbInflight' = cbInflight
            /\ pkceStore' = pkceStore]_vars

\* C39 witness: the one verifier ever minted was redeemed once, its exchange
\* ended without a record (it failed), and the same callback, tried again, got
\* the PKCE-failure page; nothing is under way and the store is empty.
VerifierGoneWhateverTheOutcomeWitness ==
  /\ nextVerifier = 1
  /\ generateCodeVerifier(0) \in DOMAIN redeemCount
  /\ redeemCount[generateCodeVerifier(0)] = 1
  /\ tokenStore = EmptyMap
  /\ \A i \in DOMAIN cbInflight : cbInflight[i] = Idle
  /\ lastCallback = CallbackResponse(400, "pkce_failed", lastAuthorize.state)
  /\ pkceStore = EmptyMap
  /\ now < PkceTtlMs

\* C40: no GET and no DELETE on the protocol endpoint invokes the gate.  A
\* DELETE that names an Active session is handed to that session's handle and
\* ends the session, and a GET that names one is handed to the handle, with
\* any Authorization header or none; neither adds to the token cache or
\* starts a call to the authority, and the cache is as it was after every
\* one that does not end the process.
StreamAndCloseBypassTheGate ==
  [][/\ (lastMcp'.req.method = "DELETE" /\ handleMCPDelete(lastMcp'.req)) =>
          /\ lastMcp'.gate = "none"
          /\ ~lastMcp'.authResponse.sent
          /\ UNCHANGED authVars
          /\ lastMcp'.req.sessionId \in ActiveSids =>
               /\ lastMcp'.status = 200
               /\ lastMcp'.dispatched = transports[lastMcp'.req.sessionId]
               /\ lastMcp'.req.sessionId \notin DOMAIN transports'
               /\ lastMcp'.req.sessionId \notin DOMAIN requestContextStore'
               /\ tports'[transports[lastMcp'.req.sessionId]].closed
     /\ (lastMcp'.req.method = "GET" /\ handleMCPGet(lastMcp'.req)) =>
          /\ lastMcp'.gate = "none"
          /\ ~lastMcp'.authResponse.sent
          /\ shutdown'.exited \/ UNCHANGED authVars
          /\ lastAuth' = lastAuth
          /\ \A token \in DOMAIN tokenCache' :
               token \in DOMAIN tokenCache /\ tokenCache'[token] = tokenCache[token]
          /\ \A i \in DOMAIN authInflight : authInflight'[i] \in {Idle, authInflight[i]}
          /\ lastMcp'.req.sessionId \in ActiveSids =>
               /\ lastMcp'.status = 200
               /\ lastMcp'.dispatched = transports[lastMcp'.req.sessionId]]_vars

\* C40 witness: a DELETE without Authorization header ended a session over
\* which a tools/call with an accepted bearer token had been served.
StreamAndCloseBypassTheGateWitness ==
  /\ lastMcp.req.method = "DELETE"
  /\ lastMcp.req.authorization = NoHeader
  /\ lastMcp.status = 200
  /\ lastMcp.dispatched # 0
  /\ lastMcp.wasActive
  /\ lastMcp.req.sessionId \in ClosedSids
  /\ lastMcp.req.sessionId \notin DOMAIN transports
  /\ "tGood" \in DOMAIN tokenCache
====
